---- MODULE Spec2Model ----
(***************************************************************************)
(* Signaling relay of cf-video-conf (src/cf-video-conf/src/index.ts, the   *)
(* D1 variant, lines 129-335) together with the watermark each polling     *)
(* client keeps (public/host.js, public/client.js).                        *)
(*                                                                         *)
(* A request is served by one handler instance.  Every `await` on a D1     *)
(* statement is a yield point: the statement executes atomically in the    *)
(* database, in a step of its own, and other requests and clock ticks may  *)
(* be interleaved between two statements of the same request.  A value of  *)
(* Date.now() bound to a statement is read when the statement is prepared, *)
(* before it executes.                                                     *)
(***************************************************************************)
EXTENDS Integers, Sequences, FiniteSets, TLC

VARIABLES
    now,                    \* Date.now() of the worker
    peers,                  \* table peers: peer_id -> [joined_at, last_seen]
    messages,               \* table messages: set of rows
    lastId,                 \* AUTOINCREMENT counter of messages.id
    inflight,               \* slot -> request being served (pc = "idle": none)
    response,               \* the last response sent, with its request and
                            \*   the statement whose error was logged
    lastMessageTimestamp,   \* peer -> watermark of its polling loop
    observed,               \* peer -> message id -> least data.timestamp of
                            \*   a response whose messages the peer's polling
                            \*   loop was handed and that held it (0: none)
    scene,                  \* requests of the end-to-end scenario sent so far
    hostApp,                \* the HostApp object of host.js
    clientApp               \* the ClientApp object of client.js

vars == <<now, peers, messages, lastId, inflight, response,
          lastMessageTimestamp, observed, scene, hostApp, clientApp>>

----------------------------------------------------------------------------
(* Bounds *)

MaxTicks == 1       \* millisecond ticks within one quiet period
MaxJumps == 1       \* long quiet periods (5 minutes or 1 hour)
MaxMsgs  == 2       \* message rows ever inserted
MaxHandled == 4     \* messages ever handed to the host's handleMessage
MaxTimers == 3      \* timers ever made by the guest's setInterval
MaxPending == 2     \* callbacks of one timer awaiting their fetch at a time
MaxDelivered == 3   \* messages ever handed to the guest's handleMessage
MaxSent == 2        \* candidates the guest ever sends while it polls

(* Program constants *)

FIVE_MINUTES == 5 * 60 * 1000       \* getActivePeerCount
ONE_HOUR     == 60 * 60 * 1000      \* cleanupInactivePeers, cleanupOldMessages

----------------------------------------------------------------------------
(* Inputs *)

Hosts   == {"HOST_1"}                   \* 'HOST_' + uuid  (host.js)
Guests  == {"GUEST_1", "GUEST_2"}       \* 'GUEST_' + uuid (client.js)
PeerIds == Hosts \cup Guests
NoPeerId == "null"                      \* searchParams.get('peerId') === null
NoSince  == -1                          \* searchParams.get('since') === null

MessageTypes == {"offer", "answer", "candidate"}

\* the payload a client posts with each type
PayloadOf(type) ==
    CASE type = "offer"     -> "SDP_O"
      [] type = "answer"    -> "SDP_A"
      [] type = "candidate" -> "ICE_C"
      [] OTHER              -> "undefined"

\* two handler instances serve requests concurrently
Slots == {1, 2}

\* JSON.stringify of a JavaScript string: the text between double quotes
JSONstringify(d) == "\"" \o d \o "\""

\* parseInt(url.searchParams.get('since') || '0')
parseSince(s) == IF s = NoSince THEN 0 ELSE s

----------------------------------------------------------------------------
(* Requests and responses *)

NoRows == << >>

Request(method, path, bodyOk, type, peerId, since) ==
    [method |-> method, path |-> path, bodyOk |-> bodyOk, type |-> type,
     peerId |-> peerId, data |-> PayloadOf(type), since |-> since,
     loop |-> FALSE, pc |-> "new", ts |-> 0, rows |-> NoRows,
     prePeers |-> {}, preMsgs |-> {}]

NoRequest == [Request("NONE", "NONE", FALSE, "NONE", NoPeerId, NoSince)
                 EXCEPT !.pc = "idle"]

Requests ==
         {Request("OPTIONS", path, FALSE, "NONE", NoPeerId, NoSince) :
             path \in {"/signaling", "/messages"}}
    \cup {Request("GET", "/", FALSE, "NONE", NoPeerId, NoSince)}
    \cup {Request("GET", "/signaling", FALSE, "NONE", NoPeerId, NoSince)}
    \cup {Request("POST", "/signaling", FALSE, "NONE", NoPeerId, NoSince)}
    \cup {Request("POST", "/signaling", TRUE, "join", p, NoSince) :
             p \in {"HOST_1", "GUEST_1"}}
    \cup {Request("POST", "/signaling", TRUE, type, "GUEST_1", NoSince) :
             type \in {"offer", "leave"}}
    \cup {Request("GET", "/messages", FALSE, "NONE", NoPeerId, NoSince)}

Response(req, status, kind) ==
    [req |-> req, status |-> status, kind |-> kind,
     success |-> FALSE, isInitiator |-> FALSE, peerCount |-> 0,
     messages |-> NoRows, timestamp |-> 0, error |-> "none"]

NoResponse == Response(NoRequest, 0, "none")

----------------------------------------------------------------------------
(* The store *)

\* (mutant) INSERT OR IGNORE: a row that exists is kept as it is
addPeer_keep(P, peerId, t) ==
    [p \in DOMAIN P \cup {peerId} |->
        IF p \in DOMAIN P THEN P[p] ELSE [joined_at |-> t, last_seen |-> t]]

\* INSERT OR REPLACE INTO peers (peer_id, joined_at, last_seen) VALUES (?,?,?)
addPeer(P, peerId, t) ==
    [p \in DOMAIN P \cup {peerId} |->
        IF p = peerId THEN [joined_at |-> t, last_seen |-> t] ELSE P[p]]

\* (mutant) the row is written whether or not it exists
updatePeerLastSeen_upsert(P, peerId, t) ==
    [p \in DOMAIN P \cup {peerId} |->
        IF p # peerId THEN P[p]
        ELSE IF p \in DOMAIN P THEN [P[p] EXCEPT !.last_seen = t]
        ELSE [joined_at |-> t, last_seen |-> t]]

\* UPDATE peers SET last_seen = ? WHERE peer_id = ?
updatePeerLastSeen(P, peerId, t) ==
    [p \in DOMAIN P |->
        IF p = peerId THEN [P[p] EXCEPT !.last_seen = t] ELSE P[p]]

\* (mutant) the comparison is turned around
getActivePeerCount_stale(P, t) ==
    Cardinality({p \in DOMAIN P : P[p].last_seen < t - FIVE_MINUTES})

\* SELECT COUNT(*) FROM peers WHERE last_seen > ?   (? = Date.now() - 5 min)
getActivePeerCount(P, t) ==
    Cardinality({p \in DOMAIN P : P[p].last_seen > t - FIVE_MINUTES})

\* (mutant) the horizon is a day
cleanupInactivePeers_day(P, t) ==
    [p \in {q \in DOMAIN P : ~(P[q].last_seen < t - 24 * ONE_HOUR)} |-> P[p]]

\* DELETE FROM peers WHERE last_seen < ?            (? = Date.now() - 1 h)
cleanupInactivePeers(P, t) ==
    [p \in {q \in DOMAIN P : ~(P[q].last_seen < t - ONE_HOUR)} |-> P[p]]

\* (mutant) DELETE ... LIMIT 1: one old row, the first inserted, goes per sweep
cleanupOldMessages_limit(M, t) ==
    LET old == {m \in M : m.timestamp < t - ONE_HOUR}
    IN IF old = {} THEN M
       ELSE M \ {CHOOSE m \in old : \A n \in old : m.id <= n.id}

\* DELETE FROM messages WHERE timestamp < ?         (? = Date.now() - 1 h)
cleanupOldMessages(M, t) ==
    {m \in M : ~(m.timestamp < t - ONE_HOUR)}

\* (mutant) data is stored without JSON.stringify
insertMessage_raw(M, id, peerId, type, data, t) ==
    M \cup {[id |-> id, peer_id |-> peerId, type |-> type,
             data |-> data, timestamp |-> t]}

\* the sweep at time t: cleanupOldMessages deletes the old messages, then
\* the inactive peers
sweep(P, M, t) ==
    [messages |-> cleanupOldMessages(M, t),
     peers |-> cleanupInactivePeers(P, t)]

\* (mutant) INSERT OR REPLACE keyed on the sender and the type
insertMessage_replace(M, id, peerId, type, data, t) ==
    {m \in M : ~(m.peer_id = peerId /\ m.type = type)}
    \cup {[id |-> id, peer_id |-> peerId, type |-> type,
           data |-> JSONstringify(data), timestamp |-> t]}

\* INSERT INTO messages (peer_id, type, data, timestamp) VALUES (?,?,?,?)
insertMessage(M, id, peerId, type, data, t) ==
    M \cup {[id |-> id, peer_id |-> peerId, type |-> type,
             data |-> JSONstringify(data), timestamp |-> t]}

\* (mutant) timestamp >= ?
selectWhere_inclusive(M, peerId, since) ==
    {m \in M : m.peer_id # peerId /\ m.timestamp >= since}

\* (mutant) the sender is not filtered out
selectWhere_anySender(M, peerId, since) ==
    {m \in M : m.timestamp > since}

\* WHERE peer_id != ? AND timestamp > ?
selectWhere(M, peerId, since) ==
    {m \in M : m.peer_id # peerId /\ m.timestamp > since}

\* SELECT type, data, peer_id as fromPeerId, timestamp
project(m) ==
    [id |-> m.id, type |-> m.type, data |-> m.data,
     fromPeerId |-> m.peer_id, timestamp |-> m.timestamp]

\* (mutant) ORDER BY timestamp DESC
orderByTimestamp_desc(S) ==
    {q \in [1..Cardinality(S) -> S] :
        /\ \A i, j \in DOMAIN q : i < j => q[i] # q[j]
        /\ \A i, j \in DOMAIN q : i < j => q[i].timestamp >= q[j].timestamp}

\* ORDER BY timestamp ASC: every listing of the rows in which timestamps
\* never decrease (rows with equal timestamps come in any order)
orderByTimestamp(S) ==
    {q \in [1..Cardinality(S) -> S] :
        /\ \A i, j \in DOMAIN q : i < j => q[i] # q[j]
        /\ \A i, j \in DOMAIN q : i < j => q[i].timestamp <= q[j].timestamp}

----------------------------------------------------------------------------
(* The browser applications *)

NoFunction == << >>

\* Map.set and Map.delete
Put(f, k, v) == [x \in DOMAIN f \cup {k} |-> IF x = k THEN v ELSE f[x]]

Del(f, k) == [x \in DOMAIN f \ {k} |-> f[x]]

\* callbacks of a setInterval that may be running at a time: the timer
\* fires every second, whether or not the callbacks before it are done
Callbacks == {1, 2, 3}

\* a callback: the messages of its poll still to handle, the await it is
\* at, and the locals of handleMessage and processQueuedCandidates
NoTask == [pc |-> "idle", messages |-> << >>, timestamp |-> 0,
           since |-> 0, timer |-> 0,
           fromGuestId |-> "null",
           offer |-> 0, peerConnection |-> 0, queue |-> 0, flushed |-> 0]

\* new HostApp()
NewHostApp ==
    [lastMessageTimestamp |-> 0,
     lastPoll |-> "none",               \* how the last fetch of a poll ended
     data |-> NoResponse,               \* join(): data = await response.json()
     peerConnections |-> NoFunction,    \* Map: guest -> RTCPeerConnection
     candidateQueues |-> NoFunction,    \* Map: guest -> array
     conn |-> << >>,        \* the RTCPeerConnection objects created, each
                            \*   with the candidates added to it, in order
     array |-> << >>,       \* the arrays created
     task |-> [k \in Callbacks |-> NoTask],
     log |-> << >>,         \* the messages handed to handleMessage, in
                            \*   order, and what the console logged
     everHad |-> {},        \* guests a connection was ever created for
     videoElements |-> {},  \* Map: guest -> video element (its keys)
     bad |-> {},            \* the messages (by number of arrival) that will
                            \*   carry a description or candidate the
                            \*   browser rejects
     sent |-> << >>]        \* the answers sent with sendMessage

\* new ClientApp(): this.interval = false (0), no timer set, the connection
\* not connected
NewClientApp ==
    [lastMessageTimestamp |-> 0,
     interval |-> 0,
     timers |-> << >>,          \* the timers made by setInterval, each with
                                \*   the variables of its closure
     connectionState |-> "new",
     polled |-> FALSE,          \* a poll was sent after `connected`
     lastPoll |-> "none",       \* how the last fetch of a poll ended
     data |-> NoResponse,       \* join(): data = await response.json()
     localStream |-> FALSE,     \* setupCamera() got the camera
     joined |-> "idle",         \* join(): not called, "pending", "joined"
                                \*   (response parsed) or "error" (caught)
     isStarted |-> FALSE,
     peerConnection |-> 0,      \* this.peerConnection: null (0) or the
                                \*   RTCPeerConnection created (index in conn)
     conn |-> << >>,            \* the RTCPeerConnection objects created
     candidateQueue |-> << >>,
     bad |-> {},                \* the messages (by number of arrival) that
                                \*   will carry a description or candidate
                                \*   the browser rejects
     sent |-> << >>,            \* the messages sent with sendMessage
     task |-> [k \in Callbacks |-> NoTask],
     log |-> << >>]             \* the messages handed to handleMessage, in
                                \*   order, and what became of each

----------------------------------------------------------------------------
Init ==
    /\ now = 1
    /\ peers = << >>
    /\ messages = {}
    /\ lastId = 0
    /\ inflight = [s \in Slots |-> NoRequest]
    /\ response = NoResponse
    /\ lastMessageTimestamp = [p \in PeerIds |-> 0]
    /\ observed = [p \in PeerIds |-> [i \in 1..MaxMsgs |-> 0]]
    /\ scene = 0
    /\ hostApp = NewHostApp
    /\ clientApp = NewClientApp

Idle == \A s \in Slots : inflight[s].pc = "idle"

\* the clock advances by a millisecond
Tick ==
    /\ now % FIVE_MINUTES <= MaxTicks
    /\ now' = now + 1
    /\ UNCHANGED <<peers, messages, lastId, inflight, response,
                   lastMessageTimestamp, observed, scene, hostApp, clientApp>>

JumpsTaken == (now \div ONE_HOUR) + ((now % ONE_HOUR) \div FIVE_MINUTES)

\* a quiet period: no request is being served while the clock advances by
\* five minutes or by an hour (a request completes within seconds)
Quiet(d) ==
    /\ Idle
    /\ JumpsTaken < MaxJumps
    /\ now' = now + d
    /\ UNCHANGED <<peers, messages, lastId, inflight, response,
                   lastMessageTimestamp, observed, scene, hostApp, clientApp>>

----------------------------------------------------------------------------
(* Responses *)

\* the request as it was received
Received(r) == [r EXCEPT !.pc = "new", !.ts = 0, !.rows = NoRows]

Reply(s, resp) ==
    /\ response' = [resp EXCEPT !.req = Received(@)]
    /\ inflight' = [inflight EXCEPT ![s] = NoRequest]

Continue(s, r, pc) ==
    /\ inflight' = [inflight EXCEPT ![s] = [r EXCEPT !.pc = pc, !.ts = now]]
    /\ UNCHANGED response

\* new Response(text, { status })
ErrorResponse(r, status) == Response(r, status, "error")

\* (mutant) whoever is counted is an initiator
JoinResponse_any(r, peerCount) ==
    [Response(r, 200, "join") EXCEPT !.success = TRUE,
        !.isInitiator = (peerCount >= 1), !.peerCount = peerCount]

\* { success: true, isInitiator: peerCount === 1, peerCount }
JoinResponse(r, peerCount) ==
    [Response(r, 200, "join") EXCEPT !.success = TRUE,
        !.isInitiator = (peerCount = 1), !.peerCount = peerCount]

\* { success: true }
StoredResponse(r) == [Response(r, 200, "stored") EXCEPT !.success = TRUE]

\* (mutant) the watermark handed back lags the clock
MessagesResponse_stale(r, t) ==
    [Response(r, 200, "messages") EXCEPT !.messages = r.rows,
                                         !.timestamp = t - 1]

\* { messages: peerMessages, timestamp: Date.now() }
MessagesResponse(r, t) ==
    [Response(r, 200, "messages") EXCEPT !.messages = r.rows, !.timestamp = t]

----------------------------------------------------------------------------
(* POST /signaling *)

\* message rows that the requests being served are still to insert
Inserting == Cardinality({s \in Slots : inflight[s].pc = "insert"})

\* handleSignalingJoin up to its first await: addPeer binds Date.now()
handleSignalingJoin(s, r) ==
    Continue(s, [r EXCEPT !.prePeers = DOMAIN peers,
                          !.preMsgs = {m.id : m \in messages}], "addPeer")

\* handleSignalingMessage up to its first await: the INSERT binds Date.now()
handleSignalingMessage(s, r) ==
    /\ lastId + Inserting < MaxMsgs
    /\ Continue(s, r, "insert")

\* (mutant) a type outside the switch is stored like a message
handleSignaling_noDefault(s, r) ==
    IF r.method # "POST" THEN Reply(s, ErrorResponse(r, 405))
    ELSE IF ~r.bodyOk THEN Reply(s, ErrorResponse(r, 400))
    ELSE IF r.type = "join" THEN handleSignalingJoin(s, r)
    ELSE handleSignalingMessage(s, r)

handleSignaling(s, r) ==
    IF r.method # "POST" THEN Reply(s, ErrorResponse(r, 405))
    ELSE IF ~r.bodyOk THEN Reply(s, ErrorResponse(r, 400))
    ELSE IF r.type = "join" THEN handleSignalingJoin(s, r)
    ELSE IF r.type \in MessageTypes THEN handleSignalingMessage(s, r)
    ELSE Reply(s, ErrorResponse(r, 400))

(* GET /messages *)

\* (mutant) peerId is not checked before the store is used
handleMessages_noCheck(s, r) == Continue(s, r, "updateLastSeen")

\* handleMessages up to its first await: updatePeerLastSeen binds Date.now()
handleMessages(s, r) ==
    IF r.peerId = NoPeerId THEN Reply(s, ErrorResponse(r, 400))
    ELSE Continue(s, r, "updateLastSeen")

\* export default { fetch }
fetch(s, r) ==
    /\ inflight[s].pc = "idle"
    /\ IF r.method = "OPTIONS" THEN Reply(s, Response(r, 200, "preflight"))
       ELSE IF r.path = "/signaling" THEN handleSignaling(s, r)
       ELSE IF r.path = "/messages" THEN handleMessages(s, r)
       ELSE Reply(s, ErrorResponse(r, 404))
    /\ UNCHANGED <<now, peers, messages, lastId, lastMessageTimestamp,
                   observed>>

\* the `since` values a caller of /messages may pass
SinceValues == {NoSince} \cup {m.timestamp : m \in messages}

\* a request of any caller
Serve(s, r) == fetch(s, r) /\ UNCHANGED <<scene, hostApp, clientApp>>

\* GET /messages?peerId=p&since=since
PollRequest(p, since) == Request("GET", "/messages", FALSE, "NONE", p, since)

Poll(s, p, since) == Serve(s, PollRequest(p, since))

\* the polling loop of a client (host.js startPolling, client.js
\* startPolling): since is the loop's watermark
LoopRequest(p) ==
    [PollRequest(p, lastMessageTimestamp[p]) EXCEPT !.loop = TRUE]

ClientPoll(s, p) == Serve(s, LoopRequest(p))

----------------------------------------------------------------------------
(* The statements of a request, one step each *)

\* await addPeer(peerId, env); cleanupInactivePeers binds Date.now()
AddPeerRun(s) ==
    LET r == inflight[s] IN
    /\ r.pc = "addPeer"
    /\ peers' = addPeer(peers, r.peerId, r.ts)
    /\ Continue(s, r, "cleanupPeers")
    /\ UNCHANGED <<now, messages, lastId, lastMessageTimestamp, observed,
                   scene, hostApp, clientApp>>

\* await cleanupInactivePeers(env); getActivePeerCount binds Date.now()
CleanupPeersRun(s) ==
    LET r == inflight[s] IN
    /\ r.pc = "cleanupPeers"
    /\ peers' = cleanupInactivePeers(peers, r.ts)
    /\ Continue(s, r, "count")
    /\ UNCHANGED <<now, messages, lastId, lastMessageTimestamp, observed,
                   scene, hostApp, clientApp>>

\* const peerCount = await getActivePeerCount(env); return new Response
CountRun(s) ==
    LET r == inflight[s] IN
    /\ r.pc = "count"
    /\ Reply(s, JoinResponse(r, getActivePeerCount(peers, r.ts)))
    /\ UNCHANGED <<now, peers, messages, lastId, lastMessageTimestamp,
                   observed, scene, hostApp, clientApp>>

\* catch (error) { console.error('Database error:', error);
\*                 return new Response('Database error', { status: 500 }) }
DatabaseError(r) == [ErrorResponse(r, 500) EXCEPT !.error = r.pc]

\* await INSERT INTO messages; cleanupOldMessages binds Date.now()
\* (JSON.stringify(undefined) is undefined, which D1 does not bind: the
\* statement rejects and the catch of handleSignalingMessage answers)
InsertRun(s) ==
    LET r == inflight[s] IN
    /\ r.pc = "insert"
    /\ IF r.data = "undefined"
       THEN /\ Reply(s, DatabaseError(r))
            /\ UNCHANGED <<messages, lastId>>
       ELSE /\ lastId' = lastId + 1
            /\ messages' = insertMessage(messages, lastId + 1, r.peerId,
                                         r.type, r.data, r.ts)
            /\ Continue(s, r, "sweepMessages")
    /\ UNCHANGED <<now, peers, lastMessageTimestamp, observed, scene, hostApp, clientApp>>

\* await DELETE FROM messages; cleanupInactivePeers binds Date.now()
SweepMessagesRun(s) ==
    LET r == inflight[s] IN
    /\ r.pc = "sweepMessages"
    /\ messages' = cleanupOldMessages(messages, r.ts)
    /\ Continue(s, r, "sweepPeers")
    /\ UNCHANGED <<now, peers, lastId, lastMessageTimestamp, observed,
                   scene, hostApp, clientApp>>

\* await cleanupInactivePeers(env); return new Response
SweepPeersRun(s) ==
    LET r == inflight[s] IN
    /\ r.pc = "sweepPeers"
    /\ peers' = cleanupInactivePeers(peers, r.ts)
    /\ Reply(s, StoredResponse(r))
    /\ UNCHANGED <<now, messages, lastId, lastMessageTimestamp, observed,
                   scene, hostApp, clientApp>>

\* await updatePeerLastSeen(peerId, env)
UpdateLastSeenRun(s) ==
    LET r == inflight[s] IN
    /\ r.pc = "updateLastSeen"
    /\ peers' = updatePeerLastSeen(peers, r.peerId, r.ts)
    /\ Continue(s, r, "select")
    /\ UNCHANGED <<now, messages, lastId, lastMessageTimestamp, observed,
                   scene, hostApp, clientApp>>

\* const result = await SELECT ... .all()
SelectRun(s) ==
    LET r == inflight[s] IN
    /\ r.pc = "select"
    /\ \E q \in orderByTimestamp(
                  selectWhere(messages, r.peerId, parseSince(r.since))) :
          Continue(s, [r EXCEPT !.rows = [i \in DOMAIN q |-> project(q[i])]],
                   "respond")
    /\ UNCHANGED <<now, peers, messages, lastId, lastMessageTimestamp,
                   observed, scene, hostApp, clientApp>>

Min(a, b) == IF a <= b THEN a ELSE b

\* return new Response({ messages, timestamp: Date.now() }); a polling loop
\* then stores data.timestamp in lastMessageTimestamp
RespondRun(s) ==
    LET r == inflight[s]
        data == MessagesResponse(r, now)
        ids == {data.messages[i].id : i \in DOMAIN data.messages} IN
    /\ r.pc = "respond"
    /\ Reply(s, data)
    /\ lastMessageTimestamp' =
          IF r.loop
          THEN [lastMessageTimestamp EXCEPT ![r.peerId] = data.timestamp]
          ELSE lastMessageTimestamp
    /\ observed' =
          IF r.loop
          THEN [observed EXCEPT ![r.peerId] =
                  [i \in DOMAIN @ |->
                     IF i \notin ids THEN @[i]
                     ELSE IF @[i] = 0 THEN data.timestamp
                     ELSE Min(@[i], data.timestamp)]]
          ELSE observed
    /\ UNCHANGED <<now, peers, messages, lastId, scene, hostApp, clientApp>>

----------------------------------------------------------------------------
(* A statement that fails: D1 rejects the promise, the statement has no
   effect, and the error travels up to the nearest try/catch around an
   await *)

\* (mutant) return await handleSignalingJoin: the catch of handleSignaling
\* answers 'Invalid JSON'
UncaughtException_caught(r) == [ErrorResponse(r, 400) EXCEPT !.error = r.pc]

\* return handleSignalingJoin(...) is not awaited inside the try of
\* handleSignaling: the rejection leaves fetch and the Workers runtime
\* answers with its error page, status 500
UncaughtException(r) ==
    [Response(r, 500, "exception") EXCEPT !.error = r.pc]

\* catch (error) { console.error('Error cleaning up messages:', error) }
\* in cleanupOldMessages; handleSignalingMessage goes on to its response
Swallowed(r) == [StoredResponse(r) EXCEPT !.error = r.pc]

Throws(s, pc, resp) ==
    /\ inflight[s].pc = pc
    /\ Reply(s, resp)
    /\ UNCHANGED <<now, peers, messages, lastId, lastMessageTimestamp,
                   observed, scene, hostApp, clientApp>>

AddPeerThrows(s) == Throws(s, "addPeer", UncaughtException(inflight[s]))

CleanupPeersThrows(s) ==
    Throws(s, "cleanupPeers", UncaughtException(inflight[s]))

CountThrows(s) == Throws(s, "count", UncaughtException(inflight[s]))

InsertThrows(s) == Throws(s, "insert", DatabaseError(inflight[s]))

SweepMessagesThrows(s) == Throws(s, "sweepMessages", Swallowed(inflight[s]))

SweepPeersThrows(s) == Throws(s, "sweepPeers", Swallowed(inflight[s]))

UpdateLastSeenThrows(s) ==
    Throws(s, "updateLastSeen", DatabaseError(inflight[s]))

SelectThrows(s) == Throws(s, "select", DatabaseError(inflight[s]))

----------------------------------------------------------------------------
(* The relay under any caller: every kind of request, well-formed or not,
   one request served at a time *)

\* POST /signaling {type, peerId, data}
PostRequest(p, type) == Request("POST", "/signaling", TRUE, type, p, NoSince)

Post(s, p, type) == Serve(s, PostRequest(p, type))

Receive == \E r \in Requests : Serve(1, r)
AnyPoll == \E p \in {"HOST_1", "GUEST_1"}, since \in SinceValues :
              Poll(1, p, since)
JoinSteps == AddPeerRun(1) \/ CleanupPeersRun(1) \/ CountRun(1)
StoreSteps == InsertRun(1) \/ SweepMessagesRun(1) \/ SweepPeersRun(1)
PollSteps == UpdateLastSeenRun(1) \/ SelectRun(1) \/ RespondRun(1)

Next ==
    \/ Tick
    \/ Receive
    \/ AnyPoll
    \/ JoinSteps
    \/ StoreSteps
    \/ PollSteps

Spec == Init /\ [][Next]_vars

----------------------------------------------------------------------------
(* Session: the host joins and polls (slot 1), a guest joins concurrently
   (slot 2), and quiet periods pass *)

SJoin == Post(1, "HOST_1", "join") \/ Post(2, "GUEST_1", "join")
SPoll == Poll(1, "HOST_1", NoSince)
SJoinSteps == \E s \in Slots :
                 AddPeerRun(s) \/ CleanupPeersRun(s) \/ CountRun(s)
QuietPeriod == Quiet(FIVE_MINUTES) \/ Quiet(ONE_HOUR)

SessionNext ==
    \/ Tick
    \/ QuietPeriod
    \/ SJoin
    \/ SPoll
    \/ SJoinSteps
    \/ PollSteps

SessionSpec == Init /\ [][SessionNext]_vars

----------------------------------------------------------------------------
(* The end-to-end scenario: host H and guest G send six requests, each
   after the response to the one before, from an empty store; any time may
   pass between two requests *)

H == "HOST_1"
G == "GUEST_1"

ScenarioRequest(k) ==
    CASE k = 1 -> PostRequest(H, "join")
      [] k = 2 -> PostRequest(G, "join")
      [] k = 3 -> PostRequest(G, "offer")
      [] k = 4 -> LoopRequest(H)
      [] k = 5 -> PostRequest(H, "answer")
      [] k = 6 -> LoopRequest(G)

ScenarioStep ==
    /\ scene < 6
    /\ Idle
    /\ fetch(1, ScenarioRequest(scene + 1))
    /\ scene' = scene + 1
    /\ UNCHANGED <<hostApp, clientApp>>

ScenarioNext ==
    \/ Tick
    \/ QuietPeriod
    \/ ScenarioStep
    \/ JoinSteps
    \/ StoreSteps
    \/ PollSteps

ScenarioSpec == Init /\ [][ScenarioNext]_vars

----------------------------------------------------------------------------
(* Query: the host and two guests post, the second guest concurrently with
   the others (slot 2), and the host and a guest poll with any `since` *)

QueryPosts == {<<"GUEST_1", "offer">>, <<"HOST_1", "answer">>}
QueryPeers == {"HOST_1", "GUEST_1"}

QPost == \/ \E x \in QueryPosts : Post(1, x[1], x[2])
         \/ Post(2, "GUEST_2", "candidate")
QPoll == \E p \in QueryPeers, since \in SinceValues : Poll(1, p, since)
QStoreSteps == \E s \in Slots :
                  InsertRun(s) \/ SweepMessagesRun(s) \/ SweepPeersRun(s)
QPollSteps == UpdateLastSeenRun(1) \/ SelectRun(1) \/ RespondRun(1)

QueryNext ==
    \/ Tick
    \/ QPost
    \/ QPoll
    \/ QStoreSteps
    \/ QPollSteps

QuerySpec == Init /\ [][QueryNext]_vars

----------------------------------------------------------------------------
(* Delivery: a guest posts (slot 2) while the host's polling loop and other
   polls of the host run (slot 1) *)

DPost == Post(2, "GUEST_1", "offer")
DPoll == \E since \in SinceValues : Poll(1, "HOST_1", since)
DLoopPoll == ClientPoll(1, "HOST_1")
DStoreSteps == InsertRun(2) \/ SweepMessagesRun(2) \/ SweepPeersRun(2)
DPollSteps == UpdateLastSeenRun(1) \/ SelectRun(1) \/ RespondRun(1)

DeliveryNext ==
    \/ Tick
    \/ DPost
    \/ DPoll
    \/ DLoopPoll
    \/ DStoreSteps
    \/ DPollSteps

DeliverySpec == Init /\ [][DeliveryNext]_vars

----------------------------------------------------------------------------
(* Retention: the host and a guest join and the guest posts, one request at
   a time, and quiet periods pass *)

RJoin == \E p \in {H, G} : Post(1, p, "join")
RPost == Post(1, G, "offer")
RetentionNext ==
    \/ Tick
    \/ QuietPeriod
    \/ RJoin
    \/ RPost
    \/ JoinSteps
    \/ StoreSteps

RetentionSpec == Init /\ [][RetentionNext]_vars

----------------------------------------------------------------------------
(* Faults: the host joins, the guest posts an offer, with and without a
   payload, and the host polls, one request at a time, while any statement
   may fail *)

\* POST /signaling {type, peerId}: data is undefined
BareRequest(p, type) == [PostRequest(p, type) EXCEPT !.data = "undefined"]

FJoin == Post(1, H, "join")
FPost == Post(1, G, "offer") \/ Serve(1, BareRequest(G, "offer"))
FPoll == Poll(1, H, NoSince)
JoinThrows == AddPeerThrows(1) \/ CleanupPeersThrows(1) \/ CountThrows(1)
StoreThrows ==
    InsertThrows(1) \/ SweepMessagesThrows(1) \/ SweepPeersThrows(1)
PollThrows == UpdateLastSeenThrows(1) \/ SelectThrows(1)

FaultNext ==
    \/ Tick
    \/ FJoin
    \/ FPost
    \/ FPoll
    \/ JoinSteps
    \/ StoreSteps
    \/ PollSteps
    \/ JoinThrows
    \/ StoreThrows
    \/ PollThrows

FaultSpec == Init /\ [][FaultNext]_vars

----------------------------------------------------------------------------
(* HostApp (host.js): the poll callbacks and handleMessage.  Every await is
   a yield point at which the other callback may run *)

ServerVars == <<now, peers, messages, lastId, inflight, response,
                lastMessageTimestamp, observed, scene>>

\* the messages a poll may hand to the host
HostMessages ==
    {[type |-> "offer", fromPeerId |-> "GUEST_1"],
     [type |-> "candidate", fromPeerId |-> "GUEST_1"],
     [type |-> "candidate", fromPeerId |-> "GUEST_2"]}

\* data.messages of a poll: one or two messages
Batches == {<<m>> : m \in HostMessages}
           \cup {<<m, n>> : m \in HostMessages, n \in HostMessages}

Logged(m, outcome) ==
    [type |-> m.type, fromPeerId |-> m.fromPeerId, outcome |-> outcome]

\* createPeerConnection(guestId): a new connection and a new, empty queue
\* are put into the two Maps
createPeerConnection(app, guestId) ==
    [app EXCEPT
       !.conn = Append(@, [guest |-> guestId, remoteDescription |-> FALSE,
                           localDescription |-> FALSE,
                           added |-> << >>, closed |-> FALSE]),
       !.array = Append(@, << >>),
       !.peerConnections = Put(@, guestId, Len(app.conn) + 1),
       !.candidateQueues = Put(@, guestId, Len(app.array) + 1),
       !.everHad = @ \cup {guestId}]

\* peerConnection.addIceCandidate(d): the browser adds candidates in the
\* order of the calls; on a closed connection, and for a candidate it
\* cannot parse, the call is rejected
addIceCandidate(app, c, d) ==
    IF app.conn[c].closed \/ d \in app.bad THEN app
    ELSE [app EXCEPT !.conn[c].added = Append(@, d)]

\* (mutant) the error leaves handleMessage and the catch of the poll
\* callback ends the callback
catchMessageError_rethrown(app, k) ==
    [app EXCEPT !.task[k] = NoTask]

\* catch (error) of handleMessage: console.error('Message error:'), and
\* handleMessage returns to the loop over the messages of the poll
catchMessageError(app, k) ==
    [app EXCEPT !.task[k].pc = "next"]

\* handleMessage, type offer, up to await setRemoteDescription
handleOffer(app, k, m, d) ==
    LET made == createPeerConnection(app, m.fromPeerId)
    IN [made EXCEPT !.task[k].pc = "setRemoteDescription",
                    !.task[k].peerConnection = Len(made.conn),
                    !.task[k].offer = d,
                    !.log = Append(@, Logged(m, "offer"))]

\* (mutant) a candidate without a connection is queued as well
handleCandidate_queued(app, k, m, d) ==
    LET X == m.fromPeerId
        has == X \in DOMAIN app.candidateQueues
        a == IF has THEN app.candidateQueues[X] ELSE Len(app.array) + 1
        arrays == IF has THEN app.array ELSE Append(app.array, << >>)
    IN IF /\ X \in DOMAIN app.peerConnections
          /\ app.conn[app.peerConnections[X]].remoteDescription
       THEN [addIceCandidate(app, app.peerConnections[X], d) EXCEPT
               !.task[k].pc = "addIceCandidate",
               !.log = Append(@, Logged(m, "added"))]
       ELSE [app EXCEPT !.array = [arrays EXCEPT ![a] = Append(@, d)],
                        !.candidateQueues = Put(@, X, a),
                        !.log = Append(@, Logged(m, "queued"))]

\* handleMessage, type candidate: added at once, queued, or ignored
handleCandidate(app, k, m, d) ==
    LET X == m.fromPeerId
        has == X \in DOMAIN app.candidateQueues
        a == IF has THEN app.candidateQueues[X] ELSE Len(app.array) + 1
        arrays == IF has THEN app.array ELSE Append(app.array, << >>)
    IN IF /\ X \in DOMAIN app.peerConnections
          /\ app.conn[app.peerConnections[X]].remoteDescription
       THEN [addIceCandidate(app, app.peerConnections[X], d) EXCEPT
               !.task[k].pc = "addIceCandidate",
               !.log = Append(@, Logged(m, "added"))]
       ELSE IF X \in DOMAIN app.peerConnections
       THEN [app EXCEPT !.array = [arrays EXCEPT ![a] = Append(@, d)],
                        !.candidateQueues = Put(@, X, a),
                             !.log = Append(@, Logged(m, "queued"))]
       ELSE [app EXCEPT !.log = Append(@, Logged(m, "ignored"))]

\* the loop of processQueuedCandidates up to its next await, and what
\* follows the loop: queue.shift(), addIceCandidate; candidateQueues.set
flush(app, k, guestId) ==
    LET a == app.task[k].queue
        c == app.task[k].flushed
    IN IF app.array[a] # << >>
       THEN [addIceCandidate(app, c, Head(app.array[a])) EXCEPT
               !.array[a] = Tail(@),
               !.task[k].pc = "flush"]
       ELSE [app EXCEPT !.candidateQueues = Put(@, guestId, a),
                        !.task[k].pc = "createAnswer"]

\* processQueuedCandidates(guestId) up to its first await: the queue and
\* the connection are looked up in the Maps as they are now
processQueuedCandidates(app, k, guestId) ==
    LET has == guestId \in DOMAIN app.candidateQueues
        a == IF has THEN app.candidateQueues[guestId] ELSE Len(app.array) + 1
        arrays == IF has THEN app.array ELSE Append(app.array, << >>)
    IN IF guestId \notin DOMAIN app.peerConnections
       THEN [app EXCEPT !.task[k].pc = "createAnswer"]
       ELSE flush([app EXCEPT !.array = arrays,
                              !.task[k].queue = a,
                              !.task[k].flushed = app.peerConnections[guestId]],
                  k, guestId)

\* messages that polls have handed over and that are still to be handled
Pending == Len(hostApp.task[1].messages) + Len(hostApp.task[2].messages)
           + Len(hostApp.task[3].messages)

\* the timer fires, the callback polls and gets data.messages
HPoll(k) ==
    /\ hostApp.task[k].pc = "idle"
    /\ \E batch \in Batches :
          /\ Len(hostApp.log) + Pending + Len(batch) <= MaxHandled
          /\ hostApp' = [hostApp EXCEPT !.task[k].pc = "next",
                                        !.task[k].messages = batch,
                                        !.task[k].timestamp = now]
    /\ UNCHANGED <<ServerVars, clientApp>>

\* the timer fires and the callback awaits its fetch of /messages
HFetch(k) ==
    /\ hostApp.task[k].pc = "idle"
    /\ hostApp' = [hostApp EXCEPT !.task[k].pc = "fetch"]
    /\ UNCHANGED <<ServerVars, clientApp>>

\* the response arrives: data.messages (none, or a candidate of a guest
\* without connection) and data.timestamp
HResponse(k) ==
    /\ hostApp.task[k].pc = "fetch"
    /\ \E batch \in {<< >>, <<[type |-> "candidate",
                               fromPeerId |-> "GUEST_2"]>>} :
          /\ Len(hostApp.log) + Pending + Len(batch) <= MaxHandled
          /\ hostApp' = [hostApp EXCEPT !.task[k].pc = "next",
                                        !.task[k].messages = batch,
                                        !.task[k].timestamp = now,
                                        !.lastPoll = "ok"]
    /\ UNCHANGED <<ServerVars, clientApp>>

\* the fetch is rejected, or the response is not JSON: the catch of the
\* callback logs 'Polling error' and the callback ends
HFails(k) ==
    /\ hostApp.task[k].pc = "fetch"
    /\ hostApp' = [hostApp EXCEPT !.task[k] = NoTask,
                                  !.lastPoll = "error"]
    /\ UNCHANGED <<ServerVars, clientApp>>

\* for (const message of data.messages) await this.handleMessage(message),
\* up to the first await of handleMessage; after the last message
\* this.lastMessageTimestamp = data.timestamp
HHandle(k) ==
    LET t == hostApp.task[k]
        m == Head(t.messages)
        taken == [hostApp EXCEPT !.task[k].messages = Tail(@),
                                 !.task[k].fromGuestId = m.fromPeerId]
        d == Len(hostApp.log) + 1
    IN /\ t.pc = "next"
       /\ hostApp' = IF t.messages = << >>
                     THEN [hostApp EXCEPT
                             !.task[k] = NoTask,
                             !.lastMessageTimestamp = t.timestamp]
                     ELSE IF m.type = "offer"
                     THEN handleOffer(taken, k, m, d)
                     ELSE handleCandidate(taken, k, m, d)
       /\ UNCHANGED <<ServerVars, clientApp>>

\* await peerConnection.setRemoteDescription(messageData) is done; then
\* processQueuedCandidates up to its first await
\* (on a connection closed meanwhile the call is rejected and the catch of
\* handleMessage logs)
HSetRemoteDescription(k) ==
    LET t == hostApp.task[k]
        set == [hostApp EXCEPT
                  !.conn[t.peerConnection].remoteDescription = TRUE]
    IN /\ t.pc = "setRemoteDescription"
       /\ hostApp' = IF \/ hostApp.conn[t.peerConnection].closed
                        \/ t.offer \in hostApp.bad
                     THEN catchMessageError(hostApp, k)
                     ELSE processQueuedCandidates(set, k, t.fromGuestId)
       /\ UNCHANGED <<ServerVars, clientApp>>

\* await peerConnection.addIceCandidate(candidate) of the flush is done
HFlush(k) ==
    /\ hostApp.task[k].pc = "flush"
    /\ hostApp' = flush(hostApp, k, hostApp.task[k].fromGuestId)
    /\ UNCHANGED <<ServerVars, clientApp>>

\* sendMessage({type: 'answer', answer}, fromGuestId)
sendAnswer(app, k) ==
    [app EXCEPT !.sent = Append(@, [type |-> "answer",
                                    targetPeer |-> app.task[k].fromGuestId,
                                    offer |-> app.task[k].offer])]

\* await createAnswer(), await setLocalDescription(answer), sendMessage
\* (on a connection closed meanwhile createAnswer is rejected and the catch
\* of handleMessage logs)
HCreateAnswer(k) ==
    LET t == hostApp.task[k]
    IN /\ t.pc = "createAnswer"
       /\ hostApp' = IF hostApp.conn[t.peerConnection].closed
                     THEN catchMessageError(hostApp, k)
                     ELSE [sendAnswer(hostApp, k) EXCEPT
                             !.conn[t.peerConnection].localDescription = TRUE,
                             !.task[k].pc = "next"]
       /\ UNCHANGED <<ServerVars, clientApp>>

\* await peerConnection.addIceCandidate(messageData) is done, or is
\* rejected and the catch of handleMessage logs
HAddIceCandidate(k) ==
    /\ hostApp.task[k].pc = "addIceCandidate"
    /\ hostApp' = catchMessageError(hostApp, k)
    /\ UNCHANGED <<ServerVars, clientApp>>

\* (mutant) the Maps are cleared
handleGuestDisconnection_all(app, guestId) ==
    [app EXCEPT !.conn = [c \in DOMAIN @ |-> [@[c] EXCEPT !.closed = TRUE]],
                !.peerConnections = NoFunction,
                !.videoElements = {},
                !.candidateQueues = NoFunction]

\* handleGuestDisconnection(guestId): close and delete the connection the
\* Map holds for the guest, remove the video element, delete the queue
\* (the guest counter of the status line is not part of the state here)
handleGuestDisconnection(app, guestId) ==
    LET closed == IF guestId \in DOMAIN app.peerConnections
                  THEN [app EXCEPT
                          !.conn[app.peerConnections[guestId]].closed = TRUE]
                  ELSE app
    IN [closed EXCEPT !.peerConnections = Del(@, guestId),
                      !.videoElements = @ \ {guestId},
                      !.candidateQueues = Del(@, guestId)]

\* the connections created for the guest that may report a state: those
\* that got both descriptions (the transports start with the local one) and
\* were not closed
Reporting(guestId) ==
    {c \in DOMAIN hostApp.conn :
        /\ hostApp.conn[c].guest = guestId
        /\ hostApp.conn[c].remoteDescription
        /\ hostApp.conn[c].localDescription
        /\ ~hostApp.conn[c].closed}

\* onconnectionstatechange (disconnected, failed or closed) of a connection
\* created for the guest, the one the Map holds or one that an offer
\* handled later has replaced there: handleGuestDisconnection(guestId)
HDisconnect(guestId) ==
    /\ Reporting(guestId) # {}
    /\ hostApp' = handleGuestDisconnection(hostApp, guestId)
    /\ hostApp' # hostApp
    /\ UNCHANGED <<ServerVars, clientApp>>

\* ontrack of a connection created for the guest: the video element of the
\* guest is looked up and, if there is none, created
HTrack(guestId) ==
    /\ Reporting(guestId) # {}
    /\ guestId \notin hostApp.videoElements
    /\ hostApp' = [hostApp EXCEPT !.videoElements = @ \cup {guestId}]
    /\ UNCHANGED <<ServerVars, clientApp>>

\* two callbacks overlap
HostNext ==
    \/ \E k \in {1, 2} :
          \/ HPoll(k)
          \/ HHandle(k)
          \/ HSetRemoteDescription(k)
          \/ HFlush(k)
          \/ HCreateAnswer(k)
          \/ HAddIceCandidate(k)
    \/ \E guestId \in Guests : HDisconnect(guestId)

HostSpec == Init /\ [][HostNext]_vars

----------------------------------------------------------------------------
(* Overlap: three callbacks of the host's timer overlap; each poll hands
   over the offer or a candidate of one guest (a poll that starts before
   the callbacks before it have ended asks with the same `since` and gets
   the same rows again) *)

OverlapMessages ==
    {[type |-> "offer", fromPeerId |-> "GUEST_1"],
     [type |-> "candidate", fromPeerId |-> "GUEST_1"]}

OPoll(k) ==
    /\ hostApp.task[k].pc = "idle"
    /\ \E m \in OverlapMessages :
          /\ Len(hostApp.log) + Pending + 1 <= MaxHandled
          /\ hostApp' = [hostApp EXCEPT !.task[k].pc = "next",
                                        !.task[k].messages = <<m>>,
                                        !.task[k].timestamp = now]
    /\ UNCHANGED <<ServerVars, clientApp>>

OverlapNext ==
    \E k \in Callbacks :
        \/ OPoll(k)
        \/ HHandle(k)
        \/ HSetRemoteDescription(k)
        \/ HFlush(k)
        \/ HCreateAnswer(k)
        \/ HAddIceCandidate(k)

OverlapSpec == Init /\ [][OverlapNext]_vars

----------------------------------------------------------------------------
(* The host's polling loop against the store: a guest posts its offer and
   a candidate, each once, and every tick of the host's timer asks for the rows after
   this.lastMessageTimestamp, which a callback sets when it has handled the
   messages of its response *)

\* a guest's POST /signaling is served: the row is inserted
LPost(m) ==
    /\ lastId < MaxMsgs
    /\ \A row \in messages :
          ~(row.peer_id = m.fromPeerId /\ row.type = m.type)
    /\ messages' = insertMessage(messages, lastId + 1, m.fromPeerId, m.type,
                                 PayloadOf(m.type), now)
    /\ lastId' = lastId + 1
    /\ UNCHANGED <<now, peers, inflight, response, lastMessageTimestamp,
                   observed, scene, hostApp, clientApp>>

\* the timer fires: fetch(`/messages?peerId=...&since=...`) is served and
\* the callback gets data.messages and data.timestamp
LPoll(k) ==
    LET rows == selectWhere(messages, "HOST_1", hostApp.lastMessageTimestamp)
    IN /\ hostApp.task[k].pc = "idle"
       /\ \E q \in orderByTimestamp({project(m) : m \in rows}) :
             /\ Len(hostApp.log) + Pending + Len(q) <= MaxHandled
             /\ hostApp' = [hostApp EXCEPT !.task[k].pc = "next",
                                           !.task[k].messages = q,
                                           !.task[k].timestamp = now]
       /\ UNCHANGED <<ServerVars, clientApp>>

LoopNext ==
    \/ Tick
    \/ \E m \in OverlapMessages : LPost(m)
    \/ \E k \in {1, 2} :
          \/ LPoll(k)
          \/ HHandle(k)
          \/ HSetRemoteDescription(k)
          \/ HFlush(k)
          \/ HCreateAnswer(k)
          \/ HAddIceCandidate(k)

LoopSpec == Init /\ [][LoopNext]_vars

----------------------------------------------------------------------------
(* Teardown: two guests send offers and one of them candidates, tracks
   arrive and connections report a terminal state; each poll callback ends
   before the next one starts, so that no candidate is ever queued *)

TeardownMessages ==
    {[type |-> "offer", fromPeerId |-> "GUEST_1"],
     [type |-> "offer", fromPeerId |-> "GUEST_2"],
     [type |-> "candidate", fromPeerId |-> "GUEST_1"]}

TeardownBatches == {<<m>> : m \in TeardownMessages}
                   \cup {<<m, n>> : m \in TeardownMessages,
                                    n \in TeardownMessages}

TPoll(k) ==
    /\ hostApp.task[k].pc = "idle"
    /\ \E batch \in TeardownBatches :
          /\ Len(hostApp.log) + Pending + Len(batch) <= MaxHandled
          /\ hostApp' = [hostApp EXCEPT !.task[k].pc = "next",
                                        !.task[k].messages = batch]
    /\ UNCHANGED <<ServerVars, clientApp>>

TeardownNext ==
    \/ TPoll(1)
    \/ HHandle(1)
    \/ HSetRemoteDescription(1)
    \/ HCreateAnswer(1)
    \/ HAddIceCandidate(1)
    \/ \E guestId \in Guests :
          \/ HTrack(guestId)
          \/ HDisconnect(guestId)

TeardownSpec == Init /\ [][TeardownNext]_vars

----------------------------------------------------------------------------
(* ClientApp (client.js): the polling timers of a guest.  A callback that
   awaits its fetch goes on when the response arrives, whether or not its
   timer has been cleared meanwhile *)

maxInterval == 5000

\* setInterval(callback, ms): a new timer; waiting: how many of its callbacks
\* await the response to their fetch (a timer fires again whether or not
\* its last callback has ended); the callbacks share the closure's variables
Timer(mode, pollInterval) ==
    [mode |-> mode, active |-> TRUE, waiting |-> 0,
     consecutiveEmptyPolls |-> 0, pollInterval |-> pollInterval]

setInterval(app, mode, pollInterval) ==
    [app EXCEPT !.timers = Append(@, Timer(mode, pollInterval)),
                !.interval = Len(app.timers) + 1]

\* clearInterval(id): nothing happens when id is null or false
clearInterval(app, id) ==
    IF id \in DOMAIN app.timers
    THEN [app EXCEPT !.timers[id].active = FALSE]
    ELSE app

\* startPolling(): pollInterval = 1000, consecutiveEmptyPolls = 0
startPolling(app) == setInterval(app, "fast", 1000)

startPollingWithInterval(app, interval) == setInterval(app, "slow", interval)

\* Math.min(pollInterval * 1.5, maxInterval)
Slower(pollInterval) ==
    IF (pollInterval * 3) \div 2 < maxInterval
    THEN (pollInterval * 3) \div 2 ELSE maxInterval

\* the callback of startPolling after its fetch, n messages in the response
fastCallback(app, i, n, timestamp) ==
    LET t == app.timers[i]
        done == [app EXCEPT !.timers[i].waiting = @ - 1]
    IN IF n > 0
       THEN [done EXCEPT !.timers[i].consecutiveEmptyPolls = 0,
                         !.timers[i].pollInterval = 1000,
                         !.lastMessageTimestamp = timestamp]
       ELSE IF t.consecutiveEmptyPolls + 1 > 3 /\ t.pollInterval < maxInterval
       THEN startPollingWithInterval(
               clearInterval(
                  [done EXCEPT
                     !.timers[i].consecutiveEmptyPolls = @ + 1,
                     !.timers[i].pollInterval = Slower(t.pollInterval)],
                  app.interval),
               Slower(t.pollInterval))
       ELSE [done EXCEPT !.timers[i].consecutiveEmptyPolls = @ + 1,
                         !.lastMessageTimestamp = timestamp]

\* the callback of startPollingWithInterval after its fetch
slowCallback(app, i, n, timestamp) ==
    LET done == [app EXCEPT !.timers[i].waiting = @ - 1]
    IN IF n > 0
       THEN startPolling(clearInterval(done, app.interval))
       ELSE [done EXCEPT !.lastMessageTimestamp = timestamp]

\* setup(): await this.join(); this.startPolling()
CSetup ==
    /\ clientApp.timers = << >>
    /\ clientApp' = startPolling(clientApp)
    /\ UNCHANGED <<ServerVars, hostApp>>

\* a timer fires: its callback sends GET /messages and awaits the response
CTimer(i) ==
    /\ i \in DOMAIN clientApp.timers
    /\ clientApp.timers[i].active
    /\ clientApp.timers[i].waiting < MaxPending
    /\ clientApp' =
          [clientApp EXCEPT
             !.timers[i].waiting = @ + 1,
             !.polled = @ \/ clientApp.connectionState = "connected"]
    /\ UNCHANGED <<ServerVars, hostApp>>

\* the response arrives with n messages and the relay's Date.now() as
\* data.timestamp, and the callback goes on
CResponse(i, n) ==
    /\ i \in DOMAIN clientApp.timers
    /\ clientApp.timers[i].waiting > 0
    /\ LET after == IF clientApp.timers[i].mode = "fast"
                    THEN fastCallback(clientApp, i, n, now)
                    ELSE slowCallback(clientApp, i, n, now)
       IN /\ Len(after.timers) <= MaxTimers
          /\ clientApp' = [after EXCEPT
                             !.lastPoll = IF n > 0 THEN "messages"
                                          ELSE "empty"]
    /\ UNCHANGED <<ServerVars, hostApp>>

\* (mutant) a failed poll stops the polling
CFails_fatal(i) ==
    /\ i \in DOMAIN clientApp.timers
    /\ clientApp.timers[i].waiting > 0
    /\ clientApp' = [clearInterval(clientApp, clientApp.interval) EXCEPT
                        !.timers[i].waiting = @ - 1,
                        !.lastPoll = "error"]
    /\ UNCHANGED <<ServerVars, hostApp>>

\* the fetch fails: the callback logs 'Polling error' and ends
CFails(i) ==
    /\ i \in DOMAIN clientApp.timers
    /\ clientApp.timers[i].waiting > 0
    /\ clientApp' = [clientApp EXCEPT !.timers[i].waiting = @ - 1,
                                      !.lastPoll = "error"]
    /\ UNCHANGED <<ServerVars, hostApp>>

\* onconnectionstatechange, case 'connected': stop polling once connected
CConnected ==
    /\ clientApp.timers # << >>
    /\ clientApp.connectionState = "new"
    /\ clientApp' =
          [(IF clientApp.interval # 0
            THEN [clearInterval(clientApp, clientApp.interval)
                     EXCEPT !.interval = 0]
            ELSE clientApp)
           EXCEPT !.connectionState = "connected"]
    /\ UNCHANGED <<ServerVars, hostApp>>

\* onicecandidate: sendMessage({type: 'candidate', candidate}), a POST to
\* /signaling; the timers are not touched
CSend ==
    /\ clientApp.timers # << >>
    /\ Len(clientApp.sent) < MaxSent
    /\ clientApp' = [clientApp EXCEPT !.sent = Append(@, "candidate")]
    /\ UNCHANGED <<ServerVars, hostApp>>

ClientNext ==
    \/ CSetup
    \/ CSend
    \/ \E i \in 1..MaxTimers :
          \/ CTimer(i)
          \/ \E n \in {0, 1} : CResponse(i, n)
          \/ CFails(i)
    \/ CConnected

ClientSpec == Init /\ [][ClientNext]_vars

\* setup() runs, a timer that is set fires, and a fetch ends with a
\* response or an error
ClientFairness ==
    /\ WF_vars(CSetup)
    /\ \A i \in 1..MaxTimers :
          /\ WF_vars(CTimer(i))
          /\ WF_vars(CResponse(i, 0) \/ CResponse(i, 1) \/ CFails(i))

ClientLiveSpec == ClientSpec /\ ClientFairness

----------------------------------------------------------------------------
(* The in-memory relay (index.ts lines 1-101): messages is a Map from the
   key `${peerId}:${Date.now()}` to the message, here the sequence of its
   entries in insertion order. The Map already holds the candidates that
   GUEST_1 posted in Stored successive milliseconds *)

\* // Keep only the latest 50 messages
Latest == 50

Stored == Latest - 2

MemoryEntry(peerId, type, k, t) ==
    [key |-> <<peerId, k>>, type |-> type, data |-> PayloadOf(type),
     fromPeerId |-> peerId, timestamp |-> t]

\* messages.set(messageKey, {...}): the value of a key the Map has is
\* replaced where it stands, a new key goes to the end
Memory_set(M, e) ==
    IF \E i \in DOMAIN M : M[i].key = e.key
    THEN [i \in DOMAIN M |-> IF M[i].key = e.key THEN e ELSE M[i]]
    ELSE Append(M, e)

\* the entries of M at the indices in keep, in the order of M
Memory_entries(M, keep) ==
    LET first[n \in 0..Len(M)] ==
           IF n = 0 THEN << >>
           ELSE IF n \in keep THEN Append(first[n - 1], M[n])
           ELSE first[n - 1]
    IN first[Len(M)]

\* cleanupOldMessages(): the entries sorted by descending timestamp (the
\* sort is stable), those after the first 50 deleted from the Map
Memory_cleanupOldMessages(M) ==
    LET before(i) == {j \in DOMAIN M :
                         \/ M[j].timestamp > M[i].timestamp
                         \/ M[j].timestamp = M[i].timestamp /\ j < i}
    IN IF Len(M) > Latest
       THEN Memory_entries(M, {i \in DOMAIN M :
                                  Cardinality(before(i)) < Latest})
       ELSE M

MemoryInit ==
    /\ now = Stored + 1
    /\ peers = << >>
    /\ messages = [i \in 1..Stored |->
                      MemoryEntry("GUEST_1", "candidate", i, i)]
    /\ lastId = 0
    /\ inflight = [s \in Slots |-> NoRequest]
    /\ response = NoResponse
    /\ lastMessageTimestamp = [p \in PeerIds |-> 0]
    /\ observed = [p \in PeerIds |-> [i \in 1..MaxMsgs |-> 0]]
    /\ scene = 0
    /\ hostApp = NewHostApp
    /\ clientApp = NewClientApp

\* the clock advances by a millisecond
MemoryTick ==
    /\ now <= Stored + MaxTicks
    /\ now' = now + 1
    /\ UNCHANGED <<peers, messages, lastId, inflight, response,
                   lastMessageTimestamp, observed, scene, hostApp, clientApp>>

\* handleSignaling, case 'offer' | 'answer' | 'candidate': the key and the
\* timestamp are two calls of Date.now() (d: the clock moved between them)
Memory_handleSignaling(peerId, type, d) ==
    /\ now + d <= Stored + MaxTicks + 1
    /\ now' = now + d
    /\ messages' = Memory_cleanupOldMessages(
                      Memory_set(messages,
                                 MemoryEntry(peerId, type, now, now + d)))
    /\ response' = StoredResponse(PostRequest(peerId, type))
    /\ UNCHANGED <<peers, lastId, inflight, lastMessageTimestamp, observed,
                   scene, hostApp, clientApp>>

MemoryNext ==
    \/ MemoryTick
    \/ \E peerId \in {"HOST_1", "GUEST_1"}, type \in {"offer", "candidate"},
          d \in {0, 1} : Memory_handleSignaling(peerId, type, d)

MemorySpec == MemoryInit /\ [][MemoryNext]_vars

----------------------------------------------------------------------------
(* Two first joiners: the host's page and the guest's page each call join()
   once, into an empty registry; the two requests are served concurrently,
   and each page gets data = await response.json(). No row gets an hour
   old, so that cleanupInactivePeers deletes none *)

\* the page of peer p calls join()
FirstJoin(s, p) ==
    /\ p \notin DOMAIN peers
    /\ \A s2 \in Slots : inflight[s2].peerId # p
    /\ Post(s, p, "join")

\* the response before this one has reached its caller
Taken ==
    \/ response = NoResponse
    \/ response.req.peerId = "HOST_1" /\ hostApp.data = response
    \/ response.req.peerId = "GUEST_1" /\ clientApp.data = response

RCount(s) == Taken /\ CountRun(s)

\* host.js join(): const data = await response.json()
RHostData ==
    /\ response.kind = "join"
    /\ response.req.peerId = "HOST_1"
    /\ hostApp.data = NoResponse
    /\ hostApp' = [hostApp EXCEPT !.data = response]
    /\ UNCHANGED <<ServerVars, clientApp>>

\* client.js join(): const data = await response.json()
RGuestData ==
    /\ response.kind = "join"
    /\ response.req.peerId = "GUEST_1"
    /\ clientApp.data = NoResponse
    /\ clientApp' = [clientApp EXCEPT !.data = response]
    /\ UNCHANGED <<ServerVars, hostApp>>

RaceNext ==
    \/ Tick
    \/ Quiet(FIVE_MINUTES)
    \/ FirstJoin(1, "HOST_1")
    \/ FirstJoin(2, "GUEST_1")
    \/ \E s \in Slots : AddPeerRun(s) \/ CleanupPeersRun(s) \/ RCount(s)
    \/ RHostData
    \/ RGuestData

RaceSpec == Init /\ [][RaceNext]_vars

----------------------------------------------------------------------------
(* The guest's polling loop against the store: the host posts a candidate
   (the INSERT binds Date.now() and lands later) while the callbacks of the
   guest's fast and backed-off timers poll with this.lastMessageTimestamp;
   a response arrives some time after the relay has made it *)

\* the host posts its first candidate
BPost == lastId = 0 /\ Idle /\ Post(2, "HOST_1", "candidate")

\* timer i fires and callback k sends
\* fetch(`/messages?peerId=...&since=${this.lastMessageTimestamp}`)
BTimer(k, i) ==
    /\ i \in DOMAIN clientApp.timers
    /\ clientApp.timers[i].active
    /\ clientApp.task[k].pc = "idle"
    /\ clientApp' =
          [clientApp EXCEPT
             !.timers[i].waiting = @ + 1,
             !.task[k] = [NoTask EXCEPT
                            !.pc = "fetch",
                            !.since = clientApp.lastMessageTimestamp,
                            !.timer = i]]
    /\ UNCHANGED <<ServerVars, hostApp>>

\* the relay serves the poll: the rows after since, and Date.now()
BServe(k) ==
    LET t == clientApp.task[k]
        rows == selectWhere(messages, "GUEST_1", t.since)
    IN /\ t.pc = "fetch"
       /\ \E q \in orderByTimestamp({project(m) : m \in rows}) :
             clientApp' = [clientApp EXCEPT !.task[k].pc = "served",
                                            !.task[k].messages = q,
                                            !.task[k].timestamp = now]
       /\ UNCHANGED <<ServerVars, hostApp>>

\* what the callback does with the messages of its response: the fast
\* timer's callback hands each to handleMessage, the backed-off timer's
\* callback hands over none
Polled(app, q, outcome) ==
    [app EXCEPT !.log = @ \o [j \in DOMAIN q |->
                                [id |-> q[j].id, type |-> q[j].type,
                                 fromPeerId |-> q[j].fromPeerId,
                                 outcome |-> outcome]]]

\* the response arrives and the callback goes on
BResponse(k) ==
    LET t == clientApp.task[k]
        i == t.timer
        n == Len(t.messages)
        fast == clientApp.timers[i].mode = "fast"
        after == IF fast
                 THEN fastCallback(clientApp, i, n, t.timestamp)
                 ELSE slowCallback(clientApp, i, n, t.timestamp)
    IN /\ t.pc = "served"
       /\ Len(after.timers) <= MaxTimers
       /\ Len(clientApp.log) + n <= MaxDelivered
       /\ clientApp' =
             [Polled(after, t.messages,
                     IF fast THEN "handled" ELSE "skipped")
                EXCEPT !.task[k] = NoTask]
       /\ UNCHANGED <<ServerVars, hostApp>>

BackoffNext ==
    \/ Tick
    \/ BPost
    \/ DStoreSteps
    \/ CSetup
    \/ \E k \in {1, 2} :
          \/ \E i \in 1..MaxTimers : BTimer(k, i)
          \/ BServe(k)
          \/ BResponse(k)

BackoffSpec == Init /\ [][BackoffNext]_vars

----------------------------------------------------------------------------
(* ClientApp (client.js): connect, the poll callbacks and handleMessage of
   the guest GUEST_1.  The relay hands a guest every message of every other
   peer: the host's answers and candidates, whichever guest's connection
   the host made them for, and what the other guests posted *)

\* the messages a poll may hand to the guest; made_for: the guest whose
\* connection the host made the answer or candidate for (host.js passes it
\* to sendMessage as targetPeer; the relay does not store it), "none" for
\* what a guest posted
GuestMessages ==
    {[type |-> t, fromPeerId |-> "HOST_1", made_for |-> g] :
        t \in {"answer", "candidate"}, g \in Guests}
    \cup {[type |-> t, fromPeerId |-> "GUEST_2", made_for |-> "none"] :
            t \in {"offer", "candidate"}}

\* data.messages of a poll: one or two messages
GuestBatches == {<<m>> : m \in GuestMessages}
                \cup {<<m, n>> : m \in GuestMessages, n \in GuestMessages}

GLogged(m, outcome) ==
    [type |-> m.type, fromPeerId |-> m.fromPeerId, made_for |-> m.made_for,
     outcome |-> outcome]

\* new RTCPeerConnection(this.pcConfig)
RTCPeerConnection ==
    [signalingState |-> "stable", remoteDescription |-> 0, added |-> << >>]

\* createPeerConnection(): this.peerConnection = new RTCPeerConnection
ClientApp_createPeerConnection(app) ==
    [app EXCEPT !.conn = Append(@, RTCPeerConnection),
                !.peerConnection = Len(app.conn) + 1]

\* (mutant) a click connects again whenever there is a stream
connect_retry(app) ==
    IF ~app.localStream THEN app
    ELSE [app EXCEPT !.conn = Append(@, RTCPeerConnection),
                     !.peerConnection = Len(app.conn) + 1,
                     !.isStarted = TRUE]

\* connect(): if (this.isStarted || !this.localStream) return;
\* createPeerConnection(); isStarted = true; makeOffer() up to its await
connect(app) ==
    IF app.isStarted \/ ~app.localStream THEN app
    ELSE [ClientApp_createPeerConnection(app) EXCEPT
            !.isStarted = TRUE]

\* this.peerConnection.addIceCandidate(d); for a candidate it cannot parse
\* the call is rejected
ClientApp_addIceCandidate(app, d) ==
    IF d \in app.bad THEN app
    ELSE [app EXCEPT !.conn[app.peerConnection].added = Append(@, d)]

\* the loop of processQueuedCandidates up to its next await
ClientApp_processQueuedCandidates(app, k) ==
    IF app.candidateQueue # << >>
    THEN [ClientApp_addIceCandidate(app, Head(app.candidateQueue)) EXCEPT
            !.candidateQueue = Tail(@),
            !.task[k].pc = "flush"]
    ELSE [app EXCEPT !.task[k].pc = "next"]

\* handleMessage, type answer, up to await setRemoteDescription; with
\* this.peerConnection null the call throws and the catch logs
handleAnswer(app, k, m, d) ==
    IF app.peerConnection = 0
    THEN [app EXCEPT !.log = Append(@, GLogged(m, "error"))]
    ELSE [app EXCEPT !.task[k].pc = "setRemoteDescription",
                     !.task[k].offer = d,
                     !.log = Append(@, GLogged(m, "answer"))]

\* handleMessage, type candidate: added at once, queued, or ignored
ClientApp_handleCandidate(app, k, m, d) ==
    IF /\ app.peerConnection # 0
       /\ app.conn[app.peerConnection].remoteDescription # 0
    THEN [ClientApp_addIceCandidate(app, d) EXCEPT
            !.task[k].pc = "addIceCandidate",
            !.log = Append(@, GLogged(m, "added"))]
    ELSE IF app.peerConnection # 0
    THEN [app EXCEPT !.candidateQueue = Append(@, d),
                     !.log = Append(@, GLogged(m, "queued"))]
    ELSE [app EXCEPT !.log = Append(@, GLogged(m, "ignored"))]

\* handleMessage(message) up to its first await; a message of another type
\* is in neither branch
ClientApp_handleMessage(app, k, m, d) ==
    IF m.type = "answer" THEN handleAnswer(app, k, m, d)
    ELSE IF m.type = "candidate" THEN ClientApp_handleCandidate(app, k, m, d)
    ELSE [app EXCEPT !.log = Append(@, GLogged(m, "none"))]

GPending == Len(clientApp.task[1].messages) + Len(clientApp.task[2].messages)
            + Len(clientApp.task[3].messages)

\* setup(): setupCamera() got the stream from getUserMedia; then
\* this.join() is called and not awaited, startPolling(), setupUI()
GSetupCamera ==
    /\ ~clientApp.localStream
    /\ clientApp' = [clientApp EXCEPT !.localStream = TRUE,
                                      !.joined = "pending"]
    /\ UNCHANGED <<ServerVars, hostApp>>

\* join(): the response of POST /signaling arrived and response.json()
\* parsed it
GJoinResponse ==
    /\ clientApp.joined = "pending"
    /\ clientApp' = [clientApp EXCEPT !.joined = "joined"]
    /\ UNCHANGED <<ServerVars, hostApp>>

\* join(): the fetch is rejected or the body is not JSON; the catch logs
\* 'Join error'
GJoinFails ==
    /\ clientApp.joined = "pending"
    /\ clientApp' = [clientApp EXCEPT !.joined = "error"]
    /\ UNCHANGED <<ServerVars, hostApp>>

\* the user clicks the connect button
GConnect ==
    /\ clientApp' = connect(clientApp)
    /\ clientApp' # clientApp
    /\ UNCHANGED <<ServerVars, hostApp>>

\* makeOffer(): await createOffer(), await setLocalDescription(offer),
\* sendMessage({type: 'offer'})
GMakeOffer ==
    /\ clientApp.peerConnection # 0
    /\ clientApp.conn[clientApp.peerConnection].signalingState = "stable"
    /\ clientApp.conn[clientApp.peerConnection].remoteDescription = 0
    /\ clientApp' =
          [clientApp EXCEPT
             !.conn[clientApp.peerConnection].signalingState =
                "have-local-offer",
             !.sent = Append(@, "offer")]
    /\ UNCHANGED <<ServerVars, hostApp>>

\* a timer fires, the callback polls and gets data.messages
GPoll(k) ==
    /\ clientApp.task[k].pc = "idle"
    /\ \E batch \in GuestBatches :
          /\ Len(clientApp.log) + GPending + Len(batch) <= MaxDelivered
          /\ clientApp' = [clientApp EXCEPT !.task[k].pc = "next",
                                            !.task[k].messages = batch]
    /\ UNCHANGED <<ServerVars, hostApp>>

\* for (const message of messages) await this.handleMessage(message)
GHandle(k) ==
    LET t == clientApp.task[k]
        m == Head(t.messages)
        taken == [clientApp EXCEPT !.task[k].messages = Tail(@)]
        d == Len(clientApp.log) + 1
    IN /\ t.pc = "next"
       /\ clientApp' = IF t.messages = << >>
                       THEN [clientApp EXCEPT !.task[k] = NoTask]
                       ELSE ClientApp_handleMessage(taken, k, m, d)
       /\ UNCHANGED <<ServerVars, hostApp>>

\* await this.peerConnection.setRemoteDescription(messageData) is done: an
\* answer is accepted in the state have-local-offer and rejected otherwise
\* (the catch logs); then processQueuedCandidates up to its first await
GSetRemoteDescription(k) ==
    LET t == clientApp.task[k]
        c == clientApp.peerConnection
    IN /\ t.pc = "setRemoteDescription"
       /\ clientApp' =
             IF /\ clientApp.conn[c].signalingState = "have-local-offer"
                /\ t.offer \notin clientApp.bad
             THEN ClientApp_processQueuedCandidates(
                     [clientApp EXCEPT
                        !.conn[c].signalingState = "stable",
                        !.conn[c].remoteDescription = t.offer], k)
             ELSE [clientApp EXCEPT !.task[k].pc = "next"]
       /\ UNCHANGED <<ServerVars, hostApp>>

\* await this.peerConnection.addIceCandidate(candidate) of the flush is done
GFlush(k) ==
    /\ clientApp.task[k].pc = "flush"
    /\ clientApp' = ClientApp_processQueuedCandidates(clientApp, k)
    /\ UNCHANGED <<ServerVars, hostApp>>

\* await this.peerConnection.addIceCandidate(messageData) is done
GAddIceCandidate(k) ==
    /\ clientApp.task[k].pc = "addIceCandidate"
    /\ clientApp' = [clientApp EXCEPT !.task[k].pc = "next"]
    /\ UNCHANGED <<ServerVars, hostApp>>

\* onconnectionstatechange: `connected` stops the polling, `disconnected`
\* and `failed` enable the connect button again ('click to retry')
GConnectionState(state) ==
    /\ clientApp.peerConnection # 0
    /\ clientApp.conn[clientApp.peerConnection].remoteDescription # 0
    /\ clientApp.connectionState # state
    /\ clientApp.connectionState # "failed"
    /\ clientApp' = [clientApp EXCEPT !.connectionState = state]
    /\ UNCHANGED <<ServerVars, hostApp>>

GuestNext ==
    \/ GSetupCamera
    \/ GConnect
    \/ GMakeOffer
    \/ \E k \in {1, 2} :
          \/ GPoll(k)
          \/ GHandle(k)
          \/ GSetRemoteDescription(k)
          \/ GFlush(k)
          \/ GAddIceCandidate(k)
    \/ \E state \in {"connected", "disconnected", "failed"} :
          GConnectionState(state)

GuestSpec == Init /\ [][GuestNext]_vars

----------------------------------------------------------------------------
(* The guest's join: setup() calls join() without awaiting it, so the
   response of the join arrives, or the join fails, at any time after it,
   while the button and one poll callback go on *)

JoinNext ==
    \/ GSetupCamera
    \/ GJoinResponse
    \/ GJoinFails
    \/ GConnect
    \/ GMakeOffer
    \/ GPoll(1)
    \/ GHandle(1)
    \/ GSetRemoteDescription(1)
    \/ GFlush(1)
    \/ GAddIceCandidate(1)

JoinSpec == Init /\ [][JoinNext]_vars

----------------------------------------------------------------------------
(* Rejected operations: some of the messages carry a description or a
   candidate that the browser rejects.  A page is the host's or a guest's;
   a behaviour follows one page, whose poll callbacks do not overlap (on
   the host a candidate is then never queued when an offer is handled; the
   guest queues the candidates that come before the answer) *)

\* data.messages of a poll of the host: one or two messages of one guest
ErrorBatches == {<<m>> : m \in OverlapMessages}
                \cup {<<m, n>> : m \in OverlapMessages, n \in OverlapMessages}

EPoll(k) ==
    /\ clientApp = NewClientApp
    /\ hostApp.task[k].pc = "idle"
    /\ \E batch \in ErrorBatches :
          /\ Len(hostApp.log) + Pending + Len(batch) <= MaxHandled
          /\ hostApp' = [hostApp EXCEPT !.task[k].pc = "next",
                                        !.task[k].messages = batch,
                                        !.task[k].timestamp = now]
    /\ UNCHANGED <<ServerVars, clientApp>>

\* the next message that will be handed to the host's handleMessage, the
\* d-th, carries data that setRemoteDescription or addIceCandidate rejects
HBad(d) ==
    /\ clientApp = NewClientApp
    /\ d = Len(hostApp.log) + 1
    /\ d \notin hostApp.bad
    /\ hostApp' = [hostApp EXCEPT !.bad = @ \cup {d}]
    /\ UNCHANGED <<ServerVars, clientApp>>

\* the same for the guest's handleMessage
GBad(d) ==
    /\ hostApp = NewHostApp
    /\ d = Len(clientApp.log) + 1
    /\ d \notin clientApp.bad
    /\ clientApp' = [clientApp EXCEPT !.bad = @ \cup {d}]
    /\ UNCHANGED <<ServerVars, hostApp>>

\* the page is a guest's: setup(), and the polls of its timer
ESetup ==
    /\ hostApp = NewHostApp
    /\ GSetupCamera

EGuestPoll ==
    /\ hostApp = NewHostApp
    /\ GPoll(1)

ErrorNext ==
    \/ \E d \in 1..MaxHandled : HBad(d)
    \/ EPoll(1)
    \/ HHandle(1)
    \/ HSetRemoteDescription(1)
    \/ HCreateAnswer(1)
    \/ HAddIceCandidate(1)
    \/ \E d \in 1..MaxDelivered : GBad(d)
    \/ ESetup
    \/ EGuestPoll
    \/ GConnect
    \/ GMakeOffer
    \/ GHandle(1)
    \/ GSetRemoteDescription(1)
    \/ GFlush(1)
    \/ GAddIceCandidate(1)

ErrorSpec == Init /\ [][ErrorNext]_vars

----------------------------------------------------------------------------
(* Polls that fail: the guest's fast timer and the backed-off timer that
   follows it, and the host's timer, poll while the relay's clock advances,
   and any fetch may fail *)

PollFailNext ==
    \/ Tick
    \/ CSetup
    \/ \E i \in {1, 2} :
          \/ CTimer(i)
          \/ \E n \in {0, 1} : CResponse(i, n)
          \/ CFails(i)
    \/ HFetch(1)
    \/ HResponse(1)
    \/ HFails(1)
    \/ HHandle(1)

PollFailSpec == Init /\ [][PollFailNext]_vars

----------------------------------------------------------------------------
(* Properties of the Delivery Endpoint *)

\* the step in which slot s runs the SELECT of a poll
Selects(s) == inflight[s].pc = "select" /\ inflight'[s].pc = "respond"

\* the step in which slot s answers a poll
Responds(s) == inflight[s].pc = "respond" /\ inflight'[s].pc = "idle"

\* C1 - Self-exclusion: whatever the peerId p, the `since` value and the
\* store, no message in the response to GET /messages?peerId=p was sent by p.
SelfExclusion ==
    response.kind = "messages" =>
        \A i \in DOMAIN response.messages :
            response.messages[i].fromPeerId # response.req.peerId

\* a poll has returned a message while the store holds a message of the
\* poller that is newer than the poll's `since`
SelfExclusionWitness ==
    /\ response.kind = "messages"
    /\ response.messages # NoRows
    /\ \E m \in messages :
          /\ m.peer_id = response.req.peerId
          /\ m.timestamp > parseSince(response.req.since)

DeliveredOnce ==
    /\ [][\A s \in Slots :
            /\ Selects(s) =>
                 LET r == inflight[s]
                     rows == inflight'[s].rows
                 IN \A m \in messages :
                       (m.peer_id # r.peerId /\ parseSince(r.since) < m.timestamp)
                       => Cardinality({i \in DOMAIN rows :
                                         rows[i] = project(m)}) = 1
            /\ Responds(s) => response'.messages = inflight[s].rows
         ]_vars
    /\ [](response.kind = "messages" =>
            \A i \in DOMAIN response.messages :
               LET seen == observed[response.req.peerId][response.messages[i].id]
               IN seen = 0 \/ parseSince(response.req.since) < seen)

\* the host's loop was handed a guest's message, and a later poll of the
\* host with `since` equal to that response's `timestamp` came back empty
\* while the message was still stored
DeliveredOnceWitness ==
    /\ response.kind = "messages"
    /\ response.messages = NoRows
    /\ \E m \in messages :
          /\ m.peer_id # response.req.peerId
          /\ observed[response.req.peerId][m.id] # 0
          /\ response.req.since = observed[response.req.peerId][m.id]

\* C4 - No message is skipped by the watermark chain: a stored message of
\* another peer that B's polling loop has not been handed is newer than B's
\* watermark, so that the loop's next poll returns it (the watermark never
\* decreases: a message at or below it is never returned to the loop).
NoMessageSkipped ==
    \A p \in PeerIds : \A m \in messages :
        (m.peer_id # p /\ observed[p][m.id] = 0)
        => m.timestamp > lastMessageTimestamp[p]

----------------------------------------------------------------------------
(* Properties of the Signaling Endpoint *)

\* C5 - Host reset clears the prior session: once a join of the host has
\* completed, no Message row and no Peer row of another peer that existed
\* when the join was received remains in the store.
HostResetClears ==
    (response.kind = "join" /\ response.req.peerId \in Hosts) =>
        /\ \A m \in messages : m.id \notin response.req.preMsgs
        /\ \A p \in DOMAIN peers :
              p \in response.req.prePeers => p = response.req.peerId

\* C6 - Initiator uniqueness on reset: a join of the host returns
\* peerCount = 1 and isInitiator = true whatever rows existed before, and a
\* join of another peer received while the host's row is present returns
\* peerCount > 1 and isInitiator = false.
InitiatorOnReset ==
    response.kind = "join" =>
        /\ response.req.peerId \in Hosts =>
              response.peerCount = 1 /\ response.isInitiator
        /\ (response.req.peerId \notin Hosts
              /\ response.req.prePeers \cap Hosts # {}) =>
              response.peerCount > 1 /\ ~response.isInitiator

\* the step in which slot s runs the COUNT of a join and answers it
Counts(s) == inflight[s].pc = "count" /\ inflight'[s].pc = "idle"

\* C7 - Every join by p that reaches the store returns success = true and
\* isInitiator = (peerCount = 1), where peerCount is the number of peers
\* seen within the five minutes before the count was prepared, p's own
\* upserted row among them; so peerCount >= 1 in every join response.
JoinCounts ==
    [][\A s \in Slots :
         Counts(s) =>
            LET r == inflight[s]
                active == {p \in DOMAIN peers :
                             peers[p].last_seen > r.ts - FIVE_MINUTES}
            IN /\ response'.kind = "join"
               /\ response'.req = Received(r)
               /\ response'.status = 200
               /\ response'.success
               /\ response'.isInitiator = (response'.peerCount = 1)
               /\ response'.peerCount = Cardinality(active)
               /\ r.peerId \in active
               /\ response'.peerCount >= 1
      ]_vars

\* a join was answered with peerCount = 1 and isInitiator = true while the
\* table held a second row, not seen for five minutes
JoinCountsWitness ==
    /\ response.kind = "join"
    /\ response.peerCount = 1
    /\ response.isInitiator
    /\ Cardinality(DOMAIN peers) = 2
    /\ \E p \in DOMAIN peers : ~(peers[p].last_seen > now - FIVE_MINUTES)

\* the step in which a request is answered as it is received
Answers(r) ==
    /\ response' # response
    /\ response'.req = r
    /\ inflight' = inflight

\* C9 - Protocol errors on /signaling change no state: a request that
\* reaches handleSignaling with a method other than POST is answered 405,
\* with a body that is not JSON 400, with a type other than join, offer,
\* answer and candidate 400, and the tables are the same after the request
\* as before it.
ProtocolErrors ==
    [][\A r \in Requests :
         (/\ response'.req = r /\ response' # response
          /\ r.path = "/signaling" /\ r.method # "OPTIONS"
          /\ \/ r.method # "POST"
             \/ ~r.bodyOk
             \/ r.type \notin MessageTypes \cup {"join"})
         => /\ Answers(r)
            /\ response'.status = IF r.method # "POST" THEN 405 ELSE 400
            /\ UNCHANGED <<peers, messages, lastId>>
      ]_vars

\* a request with an unknown type was answered 400 while the tables held a
\* peer and a message
ProtocolErrorsWitness ==
    /\ response.status = 400
    /\ response.req.path = "/signaling"
    /\ response.req.bodyOk
    /\ response.req.type = "leave"
    /\ DOMAIN peers # {}
    /\ messages # {}

\* C10 - A request that reaches handleMessages without peerId is answered
\* 400 and changes no state: no last_seen is updated, no message is read
\* out and none is deleted.
MissingPeerId ==
    [][\A r \in Requests :
         (/\ response'.req = r /\ response' # response
          /\ r.path = "/messages" /\ r.method # "OPTIONS"
          /\ r.peerId = NoPeerId)
         => /\ Answers(r)
            /\ response'.status = 400
            /\ response'.messages = NoRows
            /\ UNCHANGED <<peers, messages, lastId>>
      ]_vars

\* a poll without peerId was answered 400 while the tables held a peer and
\* a message
MissingPeerIdWitness ==
    /\ response.status = 400
    /\ response.req.path = "/messages"
    /\ response.req.peerId = NoPeerId
    /\ DOMAIN peers # {}
    /\ messages # {}

----------------------------------------------------------------------------
(* The end-to-end scenario *)

\* the response to the k-th request of the scenario has arrived
After(k) == scene = k /\ Idle

\* C8 (as claimed) - From an empty store: H joins and gets (1, true); G joins
\* and gets (2, false); G posts an offer with data SDP_O; H's next poll
\* returns exactly {type: offer, fromPeerId: G, data: SDP_O}; H posts an
\* answer with data SDP_A; G's next poll returns that answer and not G's
\* own offer.
ScenarioAsClaimed ==
    /\ After(1) => response.peerCount = 1 /\ response.isInitiator
    /\ After(2) => response.peerCount = 2 /\ ~response.isInitiator
    /\ After(4) =>
          /\ Len(response.messages) = 1
          /\ response.messages[1].type = "offer"
          /\ response.messages[1].fromPeerId = G
          /\ response.messages[1].data = "SDP_O"
    /\ After(6) =>
          /\ Len(response.messages) = 1
          /\ response.messages[1].type = "answer"
          /\ response.messages[1].fromPeerId = H
          /\ response.messages[1].data = "SDP_A"

\* C8 (amended) - As claimed, except that G gets (2, false) when H was last
\* seen less than five minutes before, and that the data of a returned
\* message is the JSON text of the payload posted.
Scenario ==
    /\ After(1) => response.peerCount = 1 /\ response.isInitiator
    /\ (/\ After(2)
        /\ H \in DOMAIN peers
        /\ peers[H].last_seen > now - FIVE_MINUTES)
       => response.peerCount = 2 /\ ~response.isInitiator
    /\ After(4) =>
          /\ Len(response.messages) = 1
          /\ response.messages[1].type = "offer"
          /\ response.messages[1].fromPeerId = G
          /\ response.messages[1].data = JSONstringify("SDP_O")
    /\ After(6) =>
          /\ Len(response.messages) = 1
          /\ response.messages[1].type = "answer"
          /\ response.messages[1].fromPeerId = H
          /\ response.messages[1].data = JSONstringify("SDP_A")

\* G's poll has returned H's answer while G's own offer is still stored,
\* after G had joined as the second active peer
ScenarioWitness ==
    /\ After(6)
    /\ response.kind = "messages"
    /\ response.req.peerId = G
    /\ Len(response.messages) = 1
    /\ \E m \in messages : m.peer_id = G /\ m.type = "offer"
    /\ G \in DOMAIN peers /\ H \in DOMAIN peers
    /\ peers[G].joined_at - peers[H].joined_at < FIVE_MINUTES

----------------------------------------------------------------------------
(* Properties of the stores *)

\* the step in which slot s runs the INSERT of a message call
Inserts(s) == inflight[s].pc = "insert" /\ inflight'[s].pc = "sweepMessages"

\* the step in which the call served by slot s ends
Ends(s) == inflight[s].pc # "idle" /\ inflight'[s].pc = "idle"

Touches(s) == inflight[s].pc = "updateLastSeen" /\ inflight'[s].pc = "select"

\* C12 - A successful poll by p reads the clock when it is taken up and sets
\* the last_seen of p's Peer row to it when p has one; it changes no other
\* Peer row, creates no Peer row, and inserts or deletes no Message row.
PollTouches ==
    [][\A s \in Slots :
         LET r == inflight[s] IN
         /\ (r.pc = "idle" /\ inflight'[s].path = "/messages"
               /\ inflight'[s].pc # "idle")
            => /\ inflight'[s].pc = "updateLastSeen"
               /\ inflight'[s].ts = now
               /\ UNCHANGED <<peers, messages, lastId>>
         /\ Touches(s) =>
              /\ DOMAIN peers' = DOMAIN peers
              /\ \A p \in DOMAIN peers :
                    peers'[p] = IF p = r.peerId
                                THEN [joined_at |-> peers[p].joined_at,
                                      last_seen |-> r.ts]
                                ELSE peers[p]
              /\ r.ts <= now
              /\ UNCHANGED <<messages, lastId>>
         /\ (Selects(s) \/ Responds(s)) =>
              UNCHANGED <<peers, messages, lastId>>
         /\ (Ends(s) /\ r.path = "/messages" /\ r.peerId # NoPeerId)
            => /\ r.pc = "respond"
               /\ response'.status = 200
               /\ response'.kind = "messages"
      ]_vars

\* the guest's poll has moved its last_seen past its joined_at, after the
\* host, whose row the guest's join had swept, polled and posted without
\* getting a row again, with a message stored
PollTouchesWitness ==
    /\ After(6)
    /\ response.kind = "messages"
    /\ response.req.peerId = G
    /\ G \in DOMAIN peers
    /\ peers[G].last_seen > peers[G].joined_at
    /\ H \notin DOMAIN peers
    /\ messages # {}

\* the step in which slot s runs the DELETE FROM peers of a join
SweepsJoin(s) == inflight[s].pc = "cleanupPeers" /\ inflight'[s].pc = "count"

\* the steps in which slot s runs the two DELETEs of a message call
SweepsMessages(s) ==
    inflight[s].pc = "sweepMessages" /\ inflight'[s].pc = "sweepPeers"

SweepsPeers(s) == inflight[s].pc = "sweepPeers" /\ inflight'[s].pc = "idle"

\* no row of the table is older than an hour at time t
FreshPeers(P, t) == \A p \in DOMAIN P : ~(P[p].last_seen < t - ONE_HOUR)

FreshMessages(M, t) == \A m \in M : ~(m.timestamp < t - ONE_HOUR)

----------------------------------------------------------------------------
(* Properties of error handling *)

\* C14 - Sweeper failure isolation: when a statement of the sweep fails in
\* a join or in an offer, answer or candidate call, the caller gets the
\* success response and the write that triggered the sweep stays applied.
SweepIsolated ==
    response.error \in {"cleanupPeers", "sweepMessages", "sweepPeers"} =>
        /\ response.status = 200
        /\ response.success
        /\ response.req.type = "join" => response.req.peerId \in DOMAIN peers
        /\ response.req.type \in MessageTypes =>
              \E m \in messages : /\ m.peer_id = response.req.peerId
                                  /\ m.type = response.req.type

\* the statements with which a request writes or reads the store
StoreStatements == {"addPeer", "count", "insert", "updateLastSeen", "select"}

\* C15 - Storage errors are surfaced as 5xx: when the upsert or the count of
\* a join, the INSERT of a message call, or the UPDATE or the SELECT of a
\* poll fails, the caller receives a status from 500 to 599, no success
\* body and no messages, and the failing statement changes no table (a
\* failed INSERT adds no Message row).
StorageErrors ==
    /\ [][\A s \in Slots :
            (Ends(s) /\ response'.error = inflight[s].pc
               /\ inflight[s].pc \in StoreStatements)
            => UNCHANGED <<peers, messages, lastId>>
         ]_vars
    /\ [](response.error \in StoreStatements =>
            /\ response.status \in 500..599
            /\ ~response.success
            /\ response.kind \notin {"join", "stored", "messages"}
            /\ response.messages = NoRows)

\* the INSERT of an offer that carried a payload failed: the guest was
\* answered 500 and the table holds no message, while the host has joined
StorageErrorsWitness ==
    /\ response.error = "insert"
    /\ response.req.data = "SDP_O"
    /\ response.status = 500
    /\ messages = {}
    /\ H \in DOMAIN peers

----------------------------------------------------------------------------
(* Algebraic properties of the stores *)

\* the current times at which the sweep of a store is looked at
SweepTimes == {now + d : d \in {0, ONE_HOUR, ONE_HOUR + 1, ONE_HOUR + 2}}

\* C16 - Retention idempotence: for every store and every fixed current
\* time, sweeping twice in succession leaves the same Peer rows and Message
\* rows as sweeping once.
SweepIdempotent ==
    \A t \in SweepTimes :
        LET once == sweep(peers, messages, t)
        IN sweep(once.peers, once.messages, t) = once

\* a store of which one sweep removes a message but not every message, and
\* a peer but not every peer
SweepIdempotentWitness ==
    \E t \in SweepTimes :
        LET once == sweep(peers, messages, t)
        IN /\ once.messages # {}
           /\ once.messages # messages
           /\ DOMAIN once.peers # {}
           /\ DOMAIN once.peers # DOMAIN peers

\* the step in which slot s runs the upsert of a join
Upserts(s) == inflight[s].pc = "addPeer" /\ inflight'[s].pc = "cleanupPeers"

\* C17 (as claimed) - Join is an upsert: a join by p, also when p has a row,
\* ends with success; its upsert writes joined_at and last_seen of p's row
\* with the time the join read and changes no other row; and a join by a p
\* that had a row leaves the number of Peer rows as it was.
JoinUpsertAsClaimed ==
    [][\A s \in Slots :
         LET r == inflight[s] IN
         /\ Upserts(s) =>
              /\ DOMAIN peers' = DOMAIN peers \cup {r.peerId}
              /\ peers'[r.peerId] = [joined_at |-> r.ts, last_seen |-> r.ts]
              /\ \A p \in DOMAIN peers : p # r.peerId => peers'[p] = peers[p]
              /\ r.ts <= now
         /\ Counts(s) =>
              /\ response'.status = 200
              /\ response'.success
              /\ r.peerId \in r.prePeers =>
                    Cardinality(DOMAIN peers') = Cardinality(r.prePeers)
      ]_vars

\* C17 (amended) - As claimed, except that a join by a p that had a row adds
\* no Peer row: the rows after it are p's row and rows that were there
\* before, without those its sweep removed, which were last seen more than
\* an hour before.
JoinUpsert ==
    [][\A s \in Slots :
         LET r == inflight[s] IN
         /\ Upserts(s) =>
              /\ DOMAIN peers' = DOMAIN peers \cup {r.peerId}
              /\ peers'[r.peerId] = [joined_at |-> r.ts, last_seen |-> r.ts]
              /\ \A p \in DOMAIN peers : p # r.peerId => peers'[p] = peers[p]
              /\ r.ts <= now
         /\ SweepsJoin(s) =>
              /\ DOMAIN peers' \subseteq DOMAIN peers
              /\ r.peerId \in DOMAIN peers'
              /\ \A p \in DOMAIN peers' : peers'[p] = peers[p]
              /\ \A p \in DOMAIN peers \ DOMAIN peers' :
                    peers[p].last_seen < r.ts - ONE_HOUR
         /\ Counts(s) =>
              /\ response'.status = 200
              /\ response'.success
              /\ UNCHANGED peers
              /\ r.peerId \in r.prePeers =>
                    /\ DOMAIN peers' \subseteq r.prePeers
                    /\ r.peerId \in DOMAIN peers'
      ]_vars

\* the host has joined again: its row carries the time of the second join,
\* and the guest's row, an hour old, is gone
JoinUpsertWitness ==
    /\ response.kind = "join"
    /\ response.req.peerId = H
    /\ Idle
    /\ response.req.prePeers = {H, G}
    /\ DOMAIN peers = {H}
    /\ peers[H].joined_at > ONE_HOUR

----------------------------------------------------------------------------
(* Properties of the host's connection contexts *)

Range(q) == {q[i] : i \in DOMAIN q}

\* C18 - Candidate queue flush ordering on the host: when the offer of a
\* guest X has been processed (set as remote description, queue flushed),
\* every candidate of X handed to handleMessage before that offer has been
\* added to a connection of X, and on the connection of the offer those
\* candidates come in the order they were handed over and before every
\* candidate handed over after the offer.
QueueFlushOrder ==
    \A k \in Callbacks :
        hostApp.task[k].pc = "createAnswer" =>
            LET t == hostApp.task[k]
                X == t.fromGuestId
                added == hostApp.conn[t.peerConnection].added
                early == {d \in 1..(t.offer - 1) :
                            /\ hostApp.log[d].type = "candidate"
                            /\ hostApp.log[d].fromPeerId = X}
            IN /\ \A d \in early :
                     \E c \in DOMAIN hostApp.conn :
                        /\ hostApp.conn[c].guest = X
                        /\ d \in Range(hostApp.conn[c].added)
               /\ \A i, j \in DOMAIN added :
                     (i < j /\ added[j] \in early) => added[i] < added[j]

\* the step in which callback k hands a candidate to handleMessage
HandlesCandidate(k) ==
    /\ hostApp.task[k].pc = "next"
    /\ hostApp.task[k].messages # << >>
    /\ Head(hostApp.task[k].messages).type = "candidate"
    /\ hostApp'.task[k] # hostApp.task[k]

\* C19 - On the host a candidate whose sender never had a connection is
\* discarded: handling it changes neither Map, no connection and no queue,
\* adds nothing, and the candidate is in no queue and on no connection
\* at any later time.
CandidateDiscarded ==
    /\ [][\A k \in Callbacks :
            (/\ HandlesCandidate(k)
             /\ Head(hostApp.task[k].messages).fromPeerId
                   \notin hostApp.everHad)
            => /\ hostApp'.peerConnections = hostApp.peerConnections
               /\ hostApp'.candidateQueues = hostApp.candidateQueues
               /\ hostApp'.conn = hostApp.conn
               /\ hostApp'.array = hostApp.array
               /\ hostApp'.log =
                     Append(hostApp.log,
                            Logged(Head(hostApp.task[k].messages), "ignored"))
               /\ hostApp'.task[k].pc = "next"
         ]_vars
    /\ [](\A d \in DOMAIN hostApp.log :
            hostApp.log[d].outcome = "ignored" =>
               /\ \A c \in DOMAIN hostApp.conn :
                     d \notin Range(hostApp.conn[c].added)
               /\ \A a \in DOMAIN hostApp.array :
                     d \notin Range(hostApp.array[a]))

\* a candidate of the guest was ignored before the guest's first offer, and
\* a candidate handed over after that offer is on the guest's connection
CandidateDiscardedWitness ==
    \E d \in DOMAIN hostApp.log :
        /\ hostApp.log[d].outcome = "ignored"
        /\ hostApp.log[d].fromPeerId = G
        /\ \A e \in 1..d : hostApp.log[e].type # "offer"
        /\ G \in DOMAIN hostApp.peerConnections
        /\ hostApp.conn[hostApp.peerConnections[G]].added # << >>

----------------------------------------------------------------------------
(* Properties of the guest's polling *)

\* C20 - Once the guest's connection is `connected` the guest polls no
\* more: no timer is active, this.interval is cleared and no GET /messages
\* is sent, also when a callback awaited its fetch, or was about to switch
\* between the fast and the slow timer, when the connection got connected.
PollingStops ==
    clientApp.connectionState = "connected" =>
        /\ \A i \in DOMAIN clientApp.timers : ~clientApp.timers[i].active
        /\ clientApp.interval = 0
        /\ ~clientApp.polled

----------------------------------------------------------------------------
(* Properties of the guest's negotiation *)

Self == "GUEST_1"

\* C21 - The guest applies an answer only if the host made it for this
\* guest's own offer: the remote description of the guest's connection is
\* never set from an answer the host made for another guest's offer.
AnswerForOwnOffer ==
    \A c \in DOMAIN clientApp.conn :
        LET d == clientApp.conn[c].remoteDescription
        IN d # 0 => /\ clientApp.log[d].type = "answer"
                    /\ clientApp.log[d].fromPeerId \in Hosts
                    /\ clientApp.log[d].made_for = Self

\* a candidate the host made for this guest's connection
OwnCandidate(d) ==
    /\ clientApp.log[d].type = "candidate"
    /\ clientApp.log[d].fromPeerId \in Hosts
    /\ clientApp.log[d].made_for = Self

\* C22 - The guest adds or queues only candidates the host made for this
\* guest's connection: a candidate another guest posted, or one the host
\* made for another guest's connection, is never passed to addIceCandidate
\* and never placed in candidateQueue.
OwnCandidatesOnly ==
    /\ \A c \in DOMAIN clientApp.conn :
          \A i \in DOMAIN clientApp.conn[c].added :
              OwnCandidate(clientApp.conn[c].added[i])
    /\ \A i \in DOMAIN clientApp.candidateQueue :
          OwnCandidate(clientApp.candidateQueue[i])

----------------------------------------------------------------------------
(* Properties of the host's teardown *)

\* the state of the host kept for a guest: the connection and the queue the
\* Maps hold for it, with their contents, and its video element
ContextOf(app, g) ==
    [peerConnection |-> IF g \in DOMAIN app.peerConnections
                        THEN <<app.peerConnections[g],
                               app.conn[app.peerConnections[g]]>>
                        ELSE << >>,
     candidateQueue |-> IF g \in DOMAIN app.candidateQueues
                        THEN <<app.candidateQueues[g],
                               app.array[app.candidateQueues[g]]>>
                        ELSE << >>,
     video |-> g \in app.videoElements]

----------------------------------------------------------------------------
(* Properties of the guest's adaptive polling *)

\* the timers that are set
Active == {i \in DOMAIN clientApp.timers : clientApp.timers[i].active}

\* C25 - The guest's polling returns to the fast interval of one second
\* upon any non-empty poll and upon the guest sending a signaling message:
\* right after either, no timer that is set is a backed-off one.
PollingResets ==
    [][(\/ clientApp'.sent # clientApp.sent
        \/ \E i \in DOMAIN clientApp.timers : CResponse(i, 1))
       => \A i \in Active' : clientApp'.timers[i].mode = "fast"
      ]_vars

\* the interval a timer was set with
IntervalOf(t) == IF t.mode = "fast" THEN 1000 ELSE t.pollInterval

\* C26 - Adaptive polling backs off from 1 s up to 5 s when idle: no timer
\* is ever set with less than 1000 ms or more than 5000 ms, and under an
\* unbroken run of empty polls the guest comes to poll every 5000 ms (unless
\* it gets connected, which ends the polling; runs that set MaxTimers
\* timers are left aside).
BackoffReachesMax ==
    /\ [](\A i \in DOMAIN clientApp.timers :
             /\ IntervalOf(clientApp.timers[i]) >= 1000
             /\ IntervalOf(clientApp.timers[i]) <= maxInterval)
    /\ \/ ~<>[](clientApp.lastPoll = "empty")
       \/ <>(clientApp.connectionState = "connected")
       \/ <>(Len(clientApp.timers) = MaxTimers)
       \/ <>(\E i \in Active : IntervalOf(clientApp.timers[i]) = maxInterval)

----------------------------------------------------------------------------
(* Properties of failing polls *)

\* a fetch of the guest's poll ends in an error
ClientPollFails ==
    /\ clientApp'.lastPoll = "error"
    /\ \E i \in DOMAIN clientApp.timers :
          clientApp'.timers[i].waiting < clientApp.timers[i].waiting

\* the fetch of the host's poll ends in an error
HostPollFails ==
    \E k \in Callbacks : /\ hostApp.task[k].pc = "fetch"
                         /\ hostApp'.task[k].pc = "idle"

\* the pending fetches of the guest
Fetches(app) == [i \in DOMAIN app.timers |-> app.timers[i].waiting]

\* C27 - A poll that fails is not fatal and is not retried at once: the
\* timers that are set stay set and no timer is added, the watermark
\* lastMessageTimestamp stays as it is, so that the next poll asks with the
\* same `since`, no message is handed to handleMessage and no fetch is
\* started; this holds of the guest and of the host.
FailedPoll ==
    [][/\ ClientPollFails =>
             /\ Active' = Active
             /\ clientApp'.interval = clientApp.interval
             /\ Len(clientApp'.timers) = Len(clientApp.timers)
             /\ clientApp'.lastMessageTimestamp =
                   clientApp.lastMessageTimestamp
             /\ clientApp'.log = clientApp.log
             /\ \A i \in DOMAIN clientApp.timers :
                   Fetches(clientApp')[i] <= Fetches(clientApp)[i]
       /\ HostPollFails =>
             /\ hostApp'.lastMessageTimestamp = hostApp.lastMessageTimestamp
             /\ hostApp'.log = hostApp.log
             /\ \A k \in Callbacks : hostApp'.task[k].pc \in {"idle"}
                                         \cup {hostApp.task[k].pc}
             /\ \A k \in Callbacks : hostApp'.task[k].messages = << >>
                                     \/ hostApp'.task[k] = hostApp.task[k]
      ]_vars

\* polls of the guest and of the host have failed after each had advanced
\* its watermark, and the guest's timer is still set
FailedPollWitness ==
    /\ clientApp.lastPoll = "error"
    /\ clientApp.lastMessageTimestamp = 1
    /\ now = 2
    /\ Active # {}
    /\ hostApp.lastPoll = "error"
    /\ hostApp.lastMessageTimestamp = 1
    /\ hostApp.task[1].pc = "idle"
    /\ hostApp.log # << >>

----------------------------------------------------------------------------
(* Properties of the candidate queues *)

\* the candidates passed to addIceCandidate of each connection, in order
Added(app) == [c \in DOMAIN app.conn |-> app.conn[c].added]

\* the host hands a candidate of guest g to handleMessage while the Map
\* holds a connection without remote description for g
HostCandidateEarly(g) ==
    \E k \in Callbacks :
        /\ hostApp.task[k].pc = "next"
        /\ hostApp.task[k].messages # << >>
        /\ Head(hostApp.task[k].messages).type = "candidate"
        /\ Head(hostApp.task[k].messages).fromPeerId = g
        /\ hostApp'.task[k].messages = Tail(hostApp.task[k].messages)
        /\ g \in DOMAIN hostApp.peerConnections
        /\ ~hostApp.conn[hostApp.peerConnections[g]].remoteDescription

\* the guest hands a candidate to handleMessage while its connection has no
\* remote description
GuestCandidateEarly ==
    \E k \in Callbacks :
        /\ clientApp.task[k].pc = "next"
        /\ clientApp.task[k].messages # << >>
        /\ Head(clientApp.task[k].messages).type = "candidate"
        /\ clientApp'.task[k].messages = Tail(clientApp.task[k].messages)
        /\ clientApp.peerConnection # 0
        /\ clientApp.conn[clientApp.peerConnection].remoteDescription = 0

\* C28 - Candidates are never applied before the remote description is
\* set: on the host and on the guest addIceCandidate is only called on a
\* connection whose remote description is set, and a candidate that arrives
\* for an existing connection without remote description is appended to the
\* tail of that connection's queue and is neither applied nor dropped.
CandidatesWait ==
    [][/\ \A c \in DOMAIN hostApp.conn :
             hostApp'.conn[c].added # hostApp.conn[c].added =>
                hostApp'.conn[c].remoteDescription
       /\ \A c \in DOMAIN clientApp.conn :
             clientApp'.conn[c].added # clientApp.conn[c].added =>
                clientApp'.conn[c].remoteDescription # 0
       /\ \A g \in Guests :
             HostCandidateEarly(g) =>
                /\ g \in DOMAIN hostApp'.candidateQueues
                /\ g \in DOMAIN hostApp.candidateQueues
                /\ hostApp'.candidateQueues[g] = hostApp.candidateQueues[g]
                /\ hostApp'.array[hostApp.candidateQueues[g]] =
                      Append(hostApp.array[hostApp.candidateQueues[g]],
                             Len(hostApp.log) + 1)
                /\ Added(hostApp') = Added(hostApp)
       /\ GuestCandidateEarly =>
             /\ clientApp'.candidateQueue =
                   Append(clientApp.candidateQueue, Len(clientApp.log) + 1)
             /\ Added(clientApp') = Added(clientApp)
      ]_vars

\* the messages are numbered in the order of their arrival at handleMessage
InArrivalOrder(seq) ==
    \A i \in DOMAIN seq : \A j \in DOMAIN seq : i < j => seq[i] < seq[j]

\* C29 - Flush before direct apply: once the remote description of a
\* connection is set, the candidates queued for it are applied in the order
\* of their arrival before any candidate that arrives afterwards is applied
\* directly, also when a second poll callback delivers a candidate while the
\* flush awaits addIceCandidate: on the host and on the guest the
\* candidates of a connection are applied in the order of their arrival, and
\* none is applied directly while the queue still holds one.
FlushFirst ==
    /\ \A c \in DOMAIN hostApp.conn : InArrivalOrder(hostApp.conn[c].added)
    /\ \A c \in DOMAIN clientApp.conn :
          InArrivalOrder(clientApp.conn[c].added)


\* the offers handled so far, by their number of arrival
Offers(app) == {d \in DOMAIN app.log : app.log[d].outcome = "offer"}

\* the offer for which handleMessage made connection c: the c-th one
OfferOf(app, c) ==
    CHOOSE d \in Offers(app) :
       Cardinality({e \in Offers(app) : e <= d}) = c

\* the answers sent for the offer of connection c
AnswersSent(app, c) ==
    Cardinality({i \in DOMAIN app.sent : app.sent[i].offer = OfferOf(app, c)})

\* a callback is still inside the offer branch of handleMessage for c
Negotiating(c) ==
    \E k \in Callbacks :
       /\ hostApp.task[k].peerConnection = c
       /\ hostApp.task[k].pc \in {"setRemoteDescription", "flush",
                                  "createAnswer"}

\* handling an offer puts a new connection without remote description and a
\* new, empty queue into the Maps under the sender's id
FreshContext ==
    LET c == Len(hostApp'.conn)
        g == hostApp'.conn[c].guest
    IN /\ Offers(hostApp') # Offers(hostApp) <=> c # Len(hostApp.conn)
       /\ c # Len(hostApp.conn) =>
             /\ c = Len(hostApp.conn) + 1
             /\ g = hostApp'.log[Len(hostApp'.log)].fromPeerId
             /\ hostApp'.peerConnections[g] = c
             /\ ~hostApp'.conn[c].remoteDescription
             /\ hostApp'.conn[c].added = << >>
             /\ Len(hostApp'.array) = Len(hostApp.array) + 1
             /\ hostApp'.candidateQueues[g] = Len(hostApp'.array)
             /\ hostApp'.array[Len(hostApp'.array)] = << >>

\* the Map holds one connection per guest id, one made for that guest
OneContext ==
    /\ Cardinality(Offers(hostApp)) = Len(hostApp.conn)
    /\ \A g \in DOMAIN hostApp.peerConnections :
          LET c == hostApp.peerConnections[g]
          IN /\ c \in DOMAIN hostApp.conn
             /\ hostApp.conn[c].guest = g
             /\ ~hostApp.conn[c].closed

\* one answer, addressed to the sender, for an offer whose remote
\* description was set, once its handleMessage is done; none otherwise
OneAnswer ==
    \A c \in DOMAIN hostApp.conn :
       /\ AnswersSent(hostApp, c) <= 1
       /\ AnswersSent(hostApp, c) = 1 => hostApp.conn[c].remoteDescription
       /\ hostApp.conn[c].remoteDescription /\ ~Negotiating(c) =>
             AnswersSent(hostApp, c) = 1
       /\ \A i \in DOMAIN hostApp.sent :
             hostApp.sent[i].offer = OfferOf(hostApp, c) =>
                hostApp.sent[i].targetPeer = hostApp.conn[c].guest

\* C30 - Every offer the host handles creates a fresh connection context
\* with an empty candidate queue under the sender's peer id and never reuses
\* one; the host holds at most one context per guest peer id; and for each
\* offer whose remote description is set successfully the host sends exactly
\* one answer.
OfferContexts ==
    /\ []OneContext
    /\ []OneAnswer
    /\ [][FreshContext]_vars

\* C31 - A guest sends its offer only after its join has succeeded: whenever
\* the guest has sent an offer, the response of its join has arrived and
\* was parsed before (idle -> joined -> offering).
OfferAfterJoin ==
    [][(\E i \in DOMAIN clientApp'.sent : clientApp'.sent[i] = "offer")
          /\ clientApp'.sent # clientApp.sent
       => clientApp.joined = "joined"]_vars


\* the messages of a poll leave the callback's loop only one by one, from
\* the head, each by being handed to handleMessage
BatchKept(app, app2, k) ==
    LET t == app.task[k]
        t2 == app2.task[k]
    IN t.messages # << >> =>
          \/ t2.messages = t.messages
          \/ /\ t2.messages = Tail(t.messages)
             /\ Len(app2.log) = Len(app.log) + 1
             /\ app2.log[Len(app2.log)].type = Head(t.messages).type
             /\ app2.log[Len(app2.log)].fromPeerId =
                   Head(t.messages).fromPeerId

\* a queue changes by a push at its tail or a shift at its head
QueueKept(q, q2) ==
    \/ q2 = q
    \/ q # << >> /\ q2 = Tail(q)
    \/ \E x \in 1..(MaxHandled + MaxDelivered) : q2 = Append(q, x)

\* a candidate that is not bad is shifted off the queue
Shifted(q, q2, bad) ==
    q # << >> /\ q2 = Tail(q) /\ Head(q) \notin bad

\* the host's callback k makes a call that is rejected: setRemoteDescription
\* for a bad offer, addIceCandidate for a bad candidate handed over or at
\* the head of the queue being flushed
HostRejected(k) ==
    LET t == hostApp.task[k]
    IN /\ hostApp'.task[k] # t
       /\ \/ t.pc = "setRemoteDescription" /\ t.offer \in hostApp.bad
          \/ /\ t.pc = "next"
             /\ t.messages # << >>
             /\ Head(t.messages).type = "candidate"
             /\ Len(hostApp.log) + 1 \in hostApp.bad
          \/ /\ t.pc = "flush"
             /\ hostApp.array[t.queue] # << >>
             /\ Head(hostApp.array[t.queue]) \in hostApp.bad

\* the same for the guest
GuestRejected(k) ==
    LET t == clientApp.task[k]
    IN /\ clientApp'.task[k] # t
       /\ \/ t.pc = "setRemoteDescription" /\ t.offer \in clientApp.bad
          \/ /\ t.pc = "next"
             /\ t.messages # << >>
             /\ Head(t.messages).type = "candidate"
             /\ Len(clientApp.log) + 1 \in clientApp.bad
          \/ /\ t.pc = "flush"
             /\ clientApp.candidateQueue # << >>
             /\ Head(clientApp.candidateQueue) \in clientApp.bad

HandledOnce ==
    /\ \A i \in DOMAIN hostApp.log : \A j \in DOMAIN hostApp.log :
          i < j => ~(/\ hostApp.log[i].type = hostApp.log[j].type
                     /\ hostApp.log[i].fromPeerId = hostApp.log[j].fromPeerId)
    /\ \A c \in DOMAIN hostApp.conn : \A e \in DOMAIN hostApp.conn :
          c < e => hostApp.conn[c].guest # hostApp.conn[e].guest
    /\ \A i \in DOMAIN hostApp.sent : \A j \in DOMAIN hostApp.sent :
          i < j => hostApp.sent[i].targetPeer # hostApp.sent[j].targetPeer


\* C34 - In every poll response every returned message m satisfies
\* since < m.timestamp <= response.timestamp (the clock never goes back), so
\* the watermark handed back is never below the timestamp of a message
\* delivered in that response.
WatermarkCoversMessages ==
    response.kind = "messages" =>
       \A i \in DOMAIN response.messages :
          /\ parseSince(response.req.since) < response.messages[i].timestamp
          /\ response.messages[i].timestamp <= response.timestamp

\* a poll with a since of its own got a message stored in the millisecond
\* of the response
WatermarkCoversMessagesWitness ==
    /\ response.kind = "messages"
    /\ response.req.since # NoSince
    /\ \E i \in DOMAIN response.messages :
          response.messages[i].timestamp = response.timestamp

\* callback k of the backed-off timer goes on with a non-empty response
SlowNonEmpty(k) ==
    LET t == clientApp.task[k]
    IN /\ t.pc = "served"
       /\ clientApp'.task[k].pc = "idle"
       /\ clientApp.timers[t.timer].mode = "slow"
       /\ t.messages # << >>

\* the messages a backed-off callback received and no callback handled
Skipped ==
    {m \in messages :
        /\ \E j \in DOMAIN clientApp.log :
              /\ clientApp.log[j].id = m.id
              /\ clientApp.log[j].outcome = "skipped"
        /\ \A j \in DOMAIN clientApp.log :
              clientApp.log[j].id = m.id
                 => clientApp.log[j].outcome # "handled"}

\* on a non-empty response the backed-off callback leaves the watermark and
\* makes this.interval a running fast timer
BackToFast ==
    [][\A k \in {1, 2} :
          SlowNonEmpty(k)
             => /\ clientApp'.lastMessageTimestamp
                      = clientApp.lastMessageTimestamp
                /\ clientApp'.interval \in DOMAIN clientApp'.timers
                /\ clientApp'.timers[clientApp'.interval].mode = "fast"
                /\ clientApp'.timers[clientApp'.interval].active]_vars

\* a skipped message in the store stays ahead of the watermark, so that a
\* later poll selects it
StillAhead ==
    \A m \in Skipped :
       (\A k \in {1, 2} : clientApp.task[k].pc = "idle")
          => m.timestamp > clientApp.lastMessageTimestamp

\* C35: the messages of a non-empty response to a backed-off poll are not
\* lost: the watermark stays, the guest is back on the fast interval, and
\* each of the messages still in the store is ahead of the watermark of
\* every later poll until handleMessage gets it
BackoffKeepsMessages == BackToFast /\ []StillAhead

\* the join() of both pages was answered isInitiator: true
BothInitiators == hostApp.data.isInitiator /\ clientApp.data.isInitiator

\* (C36 as claimed) of the joins of distinct peers into an empty registry at
\* most one is answered isInitiator = true
OneInitiatorAsClaimed == ~BothInitiators

\* C36 - Of the joins of distinct peers into an empty registry, however
\* their upserts and counts interleave, at most one is answered
\* isInitiator = true while every joiner was seen within the five minutes
\* that getActivePeerCount looks back.
OneInitiator ==
    (\A p \in DOMAIN peers : peers[p].last_seen > now - FIVE_MINUTES)
       => ~BothInitiators

\* both upserts ran before either count: neither join is answered
\* isInitiator = true
OneInitiatorWitness ==
    /\ hostApp.data.kind = "join" /\ clientApp.data.kind = "join"
    /\ hostApp.data.peerCount = 2 /\ clientApp.data.peerCount = 2
    /\ ~hostApp.data.isInitiator /\ ~clientApp.data.isInitiator

\* no callback of the host is inside handleMessage
BetweenHandlers ==
    \A k \in Callbacks : hostApp.task[k].pc \in {"idle", "next"}

\* C37 - On the host the keys of candidateQueues and of peerConnections are
\* the same in every state between message handlers: a guest has a candidate
\* queue exactly when it has a connection, also when the guest is torn down
\* while its queued candidates are being flushed.
QueuesMatchConnections ==
    BetweenHandlers
       => DOMAIN hostApp.candidateQueues = DOMAIN hostApp.peerConnections

\* the connection the Map holds for guest g cannot report a state yet, so
\* that a connection-state event for g comes from a connection that an offer
\* handled later has replaced
OnlySupersededReports(g) ==
    /\ g \in DOMAIN hostApp.peerConnections
    /\ hostApp.peerConnections[g] \notin Reporting(g)

\* C38 - A connection-state event of a superseded connection never tears
\* down the current context: after a second offer of a guest has replaced the
\* stored connection, a disconnected, failed or closed event of the first
\* connection neither closes nor removes the second one, nor the guest's
\* video element, nor its candidate queue.
SupersededEventKeepsContext ==
    [][\A g \in Guests :
          OnlySupersededReports(g) =>
             /\ g \in DOMAIN hostApp'.peerConnections
             /\ ~hostApp'.conn[hostApp.peerConnections[g]].closed
             /\ g \in hostApp.videoElements => g \in hostApp'.videoElements
             /\ g \in DOMAIN hostApp.candidateQueues
                   => g \in DOMAIN hostApp'.candidateQueues
      ]_vars

\* the entries of a Map
Entries(M) == {M[i] : i \in DOMAIN M}

\* the step of an accepted offer/answer/candidate call of the in-memory relay
MemoryStores == <<messages, response>>' # <<messages, response>>

\* below the cap a call adds a message and replaces none
AddsOne ==
    [][(MemoryStores /\ Len(messages) < Latest)
          => /\ Len(messages') = Len(messages) + 1
             /\ Entries(messages) \subseteq Entries(messages')]_vars

\* after a call the Map holds at most 50 messages, and none that went has a
\* greater timestamp than one that stayed
KeepsLatest ==
    [][MemoryStores
          => /\ Len(messages') <= Latest
             /\ \A gone \in Entries(messages) \ Entries(messages') :
                   \A kept \in Entries(messages') :
                      gone.timestamp <= kept.timestamp]_vars

\* C39 - In the in-memory relay every accepted offer/answer/candidate call
\* adds one message to the store and replaces no earlier one while the store
\* holds fewer than 50 messages, also when the same peer posts twice within
\* one millisecond of the clock; and after every such call the store holds
\* at most 50 messages, those with the greatest timestamps.
MemoryKeepsMessages == AddsOne /\ KeepsLatest

====
